---- MODULE Spec2Model ----
(***************************************************************************)
(* Session / ledger stores and display-mode resolver of ForgetMeNot.       *)
(*                                                                         *)
(* Python strings are TLA+ strings (TLC implements \o, Len and SubSeq on   *)
(* them), a dict is a function whose DOMAIN is its key set, a set is a     *)
(* set, a list is a sequence.  datetime values are integers counting hours *)
(* and timedelta(hours = 24) is the integer 24.                            *)
(***************************************************************************)
EXTENDS Integers, Sequences, FiniteSets, TLC

VARIABLES
    shown_memories,      \* SessionManager.shown_memories   {patient: {topic: set(url)}}
    session_timestamps,  \* SessionManager.session_timestamps  {"patient:topic": hour}
    conversations,       \* ConversationHistory.conversations  {patient: {topic: [turn]}}
    history_timestamps,  \* ConversationHistory.session_timestamps
    now,                 \* datetime.now(), in hours
    last_write,          \* history: hour of the last write per (store, patient, topic)
    db,                  \* the form fields of the requests and the rows the search returns
    served_in_lap,       \* history: urls returned since the last lap-around reset
    served_in_session,   \* history: urls returned since the last lap-around reset or expiry
    loop,                \* the call the event-loop thread is in, and its next statement
    marks_done,          \* the mark_as_shown calls that have returned
    worker,              \* the narration worker thread inside get_history
    raced,               \* history: turns added while the worker's sweep held their key
    memory_cache,        \* CacheManager.memory_cache  {cache_key: {data, timestamp}}
    llm_response_cache,  \* CacheManager.llm_response_cache  {cache_key: {data, timestamp}}
    cache_sets,          \* history: the last set_memories per cache key, until invalidated
    ret                  \* the call that ran last, its arguments and what it returned

vars == <<shown_memories, session_timestamps, conversations, history_timestamps,
          now, last_write, db,
          served_in_lap, served_in_session, loop, marks_done, worker, raced,
          memory_cache, llm_response_cache, cache_sets, ret>>

\* the variables only the request handlers use
query_vars == <<db, served_in_lap, served_in_session>>

tracker_vars == <<shown_memories, session_timestamps, last_write>>

ledger_vars == <<conversations, history_timestamps>>

\* the variables only the cache uses
cache_vars == <<memory_cache, llm_response_cache, cache_sets>>

\* the variables only the two threads use
conc_vars == <<loop, marks_done, worker, raced>>

ConcIdle ==
    /\ loop = [op |-> "idle"]
    /\ marks_done = {}
    /\ worker = [pc |-> "idle"]
    /\ raced = {}

(***************************************************************************)
(* Bounds of the model.                                                    *)
(***************************************************************************)
MaxNow == 36        \* the clock stops here
TickHours == 12     \* the clock advances in steps of this many hours

(***************************************************************************)
(* Python built-ins.                                                       *)
(***************************************************************************)
None == "<None>"

EmptyDict == <<>>

Put(d, k, v) == [x \in (DOMAIN d) \cup {k} |-> IF x = k THEN v ELSE d[x]]

Del(d, k) == [x \in (DOMAIN d) \ {k} |-> d[x]]

\* bool(topic) for an Optional[str]
Truthy(s) == s # None /\ s # ""

\* s.startswith(prefix)
StartsWith(s, prefix) ==
    Len(s) >= Len(prefix) /\ SubSeq(s, 1, Len(prefix)) = prefix

\* position of the first ":" of key (0 when there is none)
FirstColon(key) ==
    LET hits == {i \in 1..Len(key) : SubSeq(key, i, i) = ":"}
    IN  IF hits = {} THEN 0 ELSE CHOOSE i \in hits : \A j \in hits : i <= j

\* key.split(":", 1), for a key that holds a ":"
SplitKey(key) ==
    LET i == FirstColon(key)
    IN  <<SubSeq(key, 1, i - 1), SubSeq(key, i + 1, Len(key))>>

(***************************************************************************)
(* str.lower() and the "in" test on strings.                               *)
(***************************************************************************)
LowerChar(c) ==
    CASE c = "I" -> "i"
      [] c = "P" -> "p"
      [] c = "V" -> "v"
      [] OTHER -> c

RECURSIVE LowerFrom(_, _)
LowerFrom(s, i) ==
    IF i > Len(s) THEN "" ELSE LowerChar(SubSeq(s, i, i)) \o LowerFrom(s, i + 1)

Lower(s) == LowerFrom(s, 1)

\* sub in s
Contains(s, sub) ==
    \E i \in 1..(Len(s) - Len(sub) + 1) : SubSeq(s, i, i + Len(sub) - 1) = sub

\* list[:n] for n >= 0
Take(list, n) == SubSeq(list, 1, IF n < Len(list) THEN n ELSE Len(list))

(***************************************************************************)
(* intent_classifier.py                                                    *)
(***************************************************************************)
similarity_cutoff == 5      \* 0.5, similarities are counted in tenths

RECURSIVE UrlsOfKind(_, _)
\* the file_url of the rows of the given kind, in row order
UrlsOfKind(rows, kind) ==
    IF rows = <<>> THEN <<>>
    ELSE LET m == Head(rows)
             vertical == Contains(Lower(m.description), "vertical")
                         \/ Contains(Lower(m.description), "portrait")
             k == IF Lower(m.file_type) = "image" THEN "image"
                  ELSE IF Lower(m.file_type) = "video"
                       THEN (IF vertical THEN "vertical" ELSE "horizontal")
                       ELSE "none"
         IN  (IF k = kind THEN <<m.file_url>> ELSE <<>>) \o UrlsOfKind(Tail(rows), kind)

RECURSIVE Relevant(_)
\* the rows the loop of get_media_availability does not skip
Relevant(rows) ==
    IF rows = <<>> THEN <<>>
    ELSE (IF Head(rows).similarity < similarity_cutoff THEN <<>> ELSE <<Head(rows)>>)
         \o Relevant(Tail(rows))

get_media_availability(rows) ==
    LET images == UrlsOfKind(Relevant(rows), "image")
        horizontal_videos == UrlsOfKind(Relevant(rows), "horizontal")
        vertical_videos == UrlsOfKind(Relevant(rows), "vertical")
    IN  [total_images |-> Len(images),
         total_videos |-> Len(horizontal_videos) + Len(vertical_videos),
         video_orientations |-> [horizontal |-> Len(horizontal_videos),
                                 vertical |-> Len(vertical_videos)]]

\* a resolver that looks at the videos before it looks at the intent
determine_display_mode_VideoFirst(intent, media_availability) ==
    IF media_availability.video_orientations.vertical > 0 THEN "vertical-video"
    ELSE IF media_availability.video_orientations.horizontal > 0 THEN "video"
    ELSE IF intent.intent_type = "conversation" \/ intent.interaction_style = "interactive"
    THEN "agent"
    ELSE IF media_availability.total_images >= 5 THEN "5-pic"
    ELSE IF media_availability.total_images >= 4 THEN "4-pic"
    ELSE IF media_availability.total_images >= 1 THEN "3-pic"
    ELSE "agent"

\* a resolver without the last resort: no media still asks for photos
determine_display_mode_NoLastResort(intent, media_availability) ==
    IF intent.intent_type = "conversation" \/ intent.interaction_style = "interactive"
    THEN "agent"
    ELSE IF media_availability.video_orientations.vertical > 0 THEN "vertical-video"
    ELSE IF media_availability.video_orientations.horizontal > 0 THEN "video"
    ELSE IF media_availability.total_images >= 5 THEN "5-pic"
    ELSE IF media_availability.total_images >= 4 THEN "4-pic"
    ELSE "3-pic"

determine_display_mode(intent, media_availability) ==
    IF intent.intent_type = "conversation" \/ intent.interaction_style = "interactive"
    THEN "agent"
    ELSE LET has_vertical_video == media_availability.video_orientations.vertical > 0
             has_horizontal_video == media_availability.video_orientations.horizontal > 0
             total_images == media_availability.total_images
         IN  IF has_vertical_video THEN "vertical-video"
             ELSE IF has_horizontal_video THEN "video"
             ELSE IF total_images >= 5 THEN "5-pic"
             ELSE IF total_images >= 4 THEN "4-pic"
             ELSE IF total_images >= 3 THEN "3-pic"
             ELSE IF total_images >= 1 THEN "3-pic"
             ELSE "agent"

(***************************************************************************)
(* patient_query.py                                                        *)
(***************************************************************************)
Placeholder == "BigBuckBunny.mp4"

\* int(display_mode[0]) of a photo mode
PicCount(display_mode) ==
    CASE SubSeq(display_mode, 1, 1) = "3" -> 3
      [] SubSeq(display_mode, 1, 1) = "4" -> 4
      [] SubSeq(display_mode, 1, 1) = "5" -> 5

\* a selection that shows the scarce images instead of falling back to a video
select_media_for_mode_NoVideoFallback(display_mode, memories) ==
    LET images == UrlsOfKind(memories, "image")
        horizontal_videos == UrlsOfKind(memories, "horizontal")
        vertical_videos == UrlsOfKind(memories, "vertical")
        available_count == Len(images)
    IN  IF display_mode \in {"4-pic", "3-pic", "5-pic"}
        THEN IF available_count >= 5
             THEN <<display_mode,
                    IF display_mode = "5-pic" THEN Take(images, 5)
                    ELSE Take(images, PicCount(display_mode))>>
             ELSE IF available_count = 4 THEN <<"4-pic", Take(images, 4)>>
             ELSE IF available_count = 3 THEN <<"3-pic", Take(images, 3)>>
             ELSE <<"3-pic", images>>
        ELSE IF display_mode = "video"
        THEN <<display_mode,
               IF horizontal_videos # <<>> THEN Take(horizontal_videos, 1)
               ELSE IF images # <<>> THEN Take(images, 1) ELSE <<>> >>
        ELSE IF display_mode = "vertical-video"
        THEN <<display_mode,
               IF vertical_videos # <<>> THEN Take(vertical_videos, 1)
               ELSE IF horizontal_videos # <<>> THEN Take(horizontal_videos, 1)
               ELSE <<>> >>
        ELSE IF display_mode = "agent" THEN <<display_mode, <<Placeholder>> >>
        ELSE <<display_mode, <<>> >>

\* the pair (adjusted_display_mode, media_urls)
select_media_for_mode(display_mode, memories) ==
    LET images == UrlsOfKind(memories, "image")
        horizontal_videos == UrlsOfKind(memories, "horizontal")
        vertical_videos == UrlsOfKind(memories, "vertical")
        available_count == Len(images)
    IN  IF display_mode \in {"4-pic", "3-pic", "5-pic"}
        THEN IF available_count >= 5
             THEN <<display_mode,
                    IF display_mode = "5-pic" THEN Take(images, 5)
                    ELSE Take(images, PicCount(display_mode))>>
             ELSE IF available_count = 4 THEN <<"4-pic", Take(images, 4)>>
             ELSE IF available_count = 3 THEN <<"3-pic", Take(images, 3)>>
             ELSE IF horizontal_videos # <<>> THEN <<"video", Take(horizontal_videos, 1)>>
             ELSE IF vertical_videos # <<>>
                  THEN <<"vertical-video", Take(vertical_videos, 1)>>
             ELSE <<display_mode, <<>> >>
        ELSE IF display_mode = "video"
        THEN <<display_mode,
               IF horizontal_videos # <<>> THEN Take(horizontal_videos, 1)
               ELSE IF images # <<>> THEN Take(images, 1) ELSE <<>> >>
        ELSE IF display_mode = "vertical-video"
        THEN <<display_mode,
               IF vertical_videos # <<>> THEN Take(vertical_videos, 1)
               ELSE IF horizontal_videos # <<>> THEN Take(horizontal_videos, 1)
               ELSE <<>> >>
        ELSE IF display_mode = "agent" THEN <<display_mode, <<Placeholder>> >>
        ELSE <<display_mode, <<>> >>

RECURSIVE Unseen_Dedup(_, _)
\* a filter that also drops a row whose file_url it has already kept
Unseen_Dedup(memories, shown_ids) ==
    IF memories = <<>> THEN <<>>
    ELSE (IF Head(memories).file_url \notin shown_ids THEN <<Head(memories)>> ELSE <<>>)
         \o Unseen_Dedup(Tail(memories), shown_ids \cup {Head(memories).file_url})

RECURSIVE Unseen(_, _)
\* the loop of filter_unseen_memories over the set get_shown_memories returned
Unseen(memories, shown_ids) ==
    IF memories = <<>> THEN <<>>
    ELSE (IF Head(memories).file_url \notin shown_ids THEN <<Head(memories)>> ELSE <<>>)
         \o Unseen(Tail(memories), shown_ids)

\* the elements of a list
Range(list) == {list[i] : i \in DOMAIN list}

(***************************************************************************)
(* SessionManager                                                          *)
(***************************************************************************)
max_age_hours == 24

get_session_key(patient_id, topic) == patient_id \o ":" \o topic

\* the set stored for (patient_id, topic), empty when there is none
ShownOf(sm, patient_id, topic) ==
    IF patient_id \in DOMAIN sm /\ topic \in DOMAIN sm[patient_id]
    THEN sm[patient_id][topic] ELSE {}

\* if patient_id not in d: d[patient_id] = {}
EnsurePatient(d, patient_id) ==
    IF patient_id \in DOMAIN d THEN d ELSE Put(d, patient_id, EmptyDict)

\* a get-or-create that forgets the test and always stores a new value
EnsureTopic_Always(d, patient_id, topic, empty) ==
    Put(d, patient_id, Put(d[patient_id], topic, empty))

\* if topic not in d[patient_id]: d[patient_id][topic] = empty
EnsureTopic(d, patient_id, topic, empty) ==
    IF topic \in DOMAIN d[patient_id] THEN d
    ELSE Put(d, patient_id, Put(d[patient_id], topic, empty))

\* the two "if ... not in ...: create" statements shared by
\* get_shown_memories and mark_as_shown
GetOrCreate(sm, patient_id, topic) ==
    EnsureTopic(EnsurePatient(sm, patient_id), patient_id, topic, {})

\* shown_memories[patient_id][topic].update(memory_ids)
UpdateShown(sm, patient_id, topic, memory_ids) ==
    Put(sm, patient_id,
        Put(sm[patient_id], topic, sm[patient_id][topic] \cup memory_ids))

\* expired_keys of _clean_old_sessions
ExpiredKeys(ts, t0) == {k \in DOMAIN ts : ts[k] < t0 - max_age_hours}

\* shown_memories after the loop of _clean_old_sessions
CleanShown(sm, ts, t0) ==
    LET gone == {SplitKey(k) : k \in ExpiredKeys(ts, t0)}
    IN  [p \in DOMAIN sm |->
            [t \in {u \in DOMAIN sm[p] : <<p, u>> \notin gone} |-> sm[p][t]]]

\* session_timestamps after the loop of _clean_old_sessions
CleanStamps(ts, t0) == [k \in (DOMAIN ts) \ ExpiredKeys(ts, t0) |-> ts[k]]

\* the set get_shown_memories returns
GetShown(sm, ts, t0, patient_id, topic) ==
    GetOrCreate(CleanShown(sm, ts, t0), patient_id, topic)[patient_id][topic]

\* mark_as_shown that creates the set and adds nothing
MarkShown_Forget(sm, patient_id, topic, memory_ids) ==
    GetOrCreate(sm, patient_id, topic)

\* mark_as_shown that assigns the ids instead of adding them
MarkShown_Overwrite(sm, patient_id, topic, memory_ids) ==
    LET s1 == GetOrCreate(sm, patient_id, topic)
    IN  Put(s1, patient_id, Put(s1[patient_id], topic, memory_ids))

\* shown_memories after mark_as_shown
MarkShown(sm, patient_id, topic, memory_ids) ==
    UpdateShown(GetOrCreate(sm, patient_id, topic), patient_id, topic, memory_ids)

\* reset_session that leaves the sets as they are
ResetShown_Keep(sm, patient_id, topic) == sm

\* shown_memories after reset_session
ResetShown(sm, patient_id, topic) ==
    IF Truthy(topic)
    THEN IF patient_id \in DOMAIN sm /\ topic \in DOMAIN sm[patient_id]
         THEN Put(sm, patient_id, Put(sm[patient_id], topic, {}))
         ELSE sm
    ELSE Del(sm, patient_id)

\* session_timestamps after reset_session
ResetStamps(sm, ts, patient_id, topic) ==
    IF Truthy(topic)
    THEN IF patient_id \in DOMAIN sm /\ topic \in DOMAIN sm[patient_id]
         THEN Del(ts, get_session_key(patient_id, topic))
         ELSE ts
    ELSE [k \in {x \in DOMAIN ts : ~StartsWith(x, patient_id \o ":")} |-> ts[k]]

(***************************************************************************)
(* ConversationHistory                                                     *)
(***************************************************************************)
ConversationTurn(timestamp, role, message, topic) ==
    [timestamp |-> timestamp, role |-> role, message |-> message, topic |-> topic]

\* the list stored for (patient_id, topic), empty when there is none
TurnsOf(conv, patient_id, topic) ==
    IF patient_id \in DOMAIN conv /\ topic \in DOMAIN conv[patient_id]
    THEN conv[patient_id][topic] ELSE <<>>

\* an add_turn that puts the turn at the front of the list
AppendTurn_Front(conv, patient_id, topic, turn) ==
    Put(conv, patient_id,
        Put(conv[patient_id], topic, <<turn>> \o conv[patient_id][topic]))

\* conversations after add_turn
\* conversations[patient_id][topic].append(turn)
AppendTurn(conv, patient_id, topic, turn) ==
    Put(conv, patient_id,
        Put(conv[patient_id], topic, Append(conv[patient_id][topic], turn)))

AddTurn(conv, patient_id, topic, role, message, t0) ==
    AppendTurn(EnsureTopic(EnsurePatient(conv, patient_id), patient_id, topic, <<>>),
               patient_id, topic, ConversationTurn(t0, role, message, topic))

\* conversations after the loop of ConversationHistory._clean_old_sessions
CleanConversations(conv, ts, t0) ==
    LET gone == {SplitKey(k) : k \in ExpiredKeys(ts, t0)}
    IN  [p \in DOMAIN conv |->
            [t \in {u \in DOMAIN conv[p] : <<p, u>> \notin gone} |-> conv[p][t]]]

\* an argument that was left out, that is None, or that is the integer n
Missing == [tag |-> "missing"]

IsNone == [tag |-> "none"]

IntValue(n) == [tag |-> "int", val |-> n]

\* history[-max_turns:] when the integer max_turns is truthy, else history
LastTurns(history, max_turns) ==
    IF max_turns = 0 THEN history
    ELSE IF max_turns > 0
         THEN SubSeq(history, (IF Len(history) > max_turns
                               THEN Len(history) - max_turns + 1 ELSE 1), Len(history))
         ELSE SubSeq(history, (IF Len(history) > -max_turns
                               THEN -max_turns + 1 ELSE Len(history) + 1), Len(history))

\* max_turns: Optional[int] = 10 in the signature of get_history
default_max_turns == 10

\* a parameter that takes None for the default as well
MaxTurnsParameter_NoneAsDefault(arg) ==
    IF arg.tag \in {"missing", "none"} THEN IntValue(default_max_turns) ELSE arg

\* the parameter max_turns of get_history for the argument arg
MaxTurnsParameter(arg) == IF arg.tag = "missing" THEN IntValue(default_max_turns) ELSE arg

\* what get_history returns of history: history[-max_turns:] if max_turns,
\* else history
Window(history, arg) ==
    LET max_turns == MaxTurnsParameter(arg)
    IN  IF max_turns.tag = "none" THEN history ELSE LastTurns(history, max_turns.val)

\* conversations after reset_conversation; topic is a topic or None
ResetConversations(conv, patient_id, topic) ==
    IF Truthy(topic)
    THEN IF patient_id \in DOMAIN conv /\ topic \in DOMAIN conv[patient_id]
         THEN Put(conv, patient_id, Del(conv[patient_id], topic))
         ELSE conv
    ELSE IF patient_id \in DOMAIN conv THEN Del(conv, patient_id) ELSE conv

\* ConversationHistory.session_timestamps after reset_conversation
ResetLedgerStamps(conv, ts, patient_id, topic) ==
    IF Truthy(topic)
    THEN IF /\ patient_id \in DOMAIN conv /\ topic \in DOMAIN conv[patient_id]
            /\ (patient_id \o ":" \o topic) \in DOMAIN ts
         THEN Del(ts, patient_id \o ":" \o topic)
         ELSE ts
    ELSE [k \in {x \in DOMAIN ts : ~StartsWith(x, patient_id \o ":")} |-> ts[k]]

(***************************************************************************)
(* The sessions, ids and calls of the store specification.                 *)
(***************************************************************************)
Sessions == {<<"a", "">>, <<"a", "c">>, <<"a:b", "c">>}

Patients == {s[1] : s \in Sessions}

Urls == {"u1", "u2"}

mark_as_shown(patient_id, topic, memory_ids) ==
    /\ shown_memories' = MarkShown(shown_memories, patient_id, topic, memory_ids)
    /\ session_timestamps' =
           Put(session_timestamps, get_session_key(patient_id, topic), now)
    /\ last_write' = Put(last_write, <<"tracker", patient_id, topic>>, now)
    /\ ret' = [op |-> "mark_as_shown", patient_id |-> patient_id, topic |-> topic,
               memory_ids |-> memory_ids,
               before |-> ShownOf(shown_memories, patient_id, topic)]
    /\ UNCHANGED <<cache_vars, now, query_vars, ledger_vars, conc_vars>>

get_shown_memories(patient_id, topic) ==
    /\ shown_memories' =
           GetOrCreate(CleanShown(shown_memories, session_timestamps, now),
                       patient_id, topic)
    /\ session_timestamps' = CleanStamps(session_timestamps, now)
    /\ ret' = [op |-> "get_shown_memories", patient_id |-> patient_id, topic |-> topic,
               out |-> GetShown(shown_memories, session_timestamps, now,
                                patient_id, topic)]
    /\ UNCHANGED <<cache_vars, now, last_write, query_vars, ledger_vars, conc_vars>>

reset_session(patient_id, topic) ==
    /\ shown_memories' = ResetShown(shown_memories, patient_id, topic)
    /\ session_timestamps' =
           ResetStamps(shown_memories, session_timestamps, patient_id, topic)
    /\ ret' = [op |-> "reset_session", patient_id |-> patient_id, topic |-> topic]
    /\ UNCHANGED <<cache_vars, now, last_write, query_vars, ledger_vars, conc_vars>>

Tick ==
    /\ now + TickHours <= MaxNow
    /\ now' = now + TickHours
    /\ ret' = [op |-> "tick"]
    /\ UNCHANGED <<cache_vars, tracker_vars, query_vars, ledger_vars, conc_vars>>

Init ==
    /\ shown_memories = EmptyDict
    /\ session_timestamps = EmptyDict
    /\ conversations = EmptyDict
    /\ history_timestamps = EmptyDict
    /\ now = 0
    /\ last_write = EmptyDict
    /\ db = [patient_id |-> "a", topic |-> "c", rows |-> <<>>]
    /\ served_in_lap = {}
    /\ served_in_session = {}
    /\ ConcIdle
    /\ memory_cache = EmptyDict
    /\ llm_response_cache = EmptyDict
    /\ cache_sets = EmptyDict
    /\ ret = [op |-> "init"]

Next ==
    \/ \E s \in Sessions, ids \in SUBSET Urls : mark_as_shown(s[1], s[2], ids)
    \/ \E s \in Sessions : get_shown_memories(s[1], s[2])
    \/ \E s \in Sessions : reset_session(s[1], s[2])
    \/ \E p \in Patients : reset_session(p, None)
    \/ Tick

Spec == Init /\ [][Next]_vars

(***************************************************************************)
(* The request handler over a fixed candidate list.                        *)
(***************************************************************************)
Row(type, desc, url, sim) ==
    [file_type |-> type, description |-> desc, file_url |-> url, similarity |-> sim]

\* the rows of MEMORY_VAULT, ranked by similarity
Ranked == << Row("video", "Portrait clip", "v1", 9),
             Row("Video", "beach day", "h1", 8),
             Row("image", "beach", "i1", 8),
             Row("Image", "vertical pier", "i2", 7),
             Row("image", "dunes", "i3", 6) >>

RECURSIVE SubLists(_)
\* the sub-lists of a list, order kept
SubLists(list) ==
    IF list = <<>> THEN {<<>>}
    ELSE LET rest == SubLists(Tail(list))
         IN  rest \cup {<<Head(list)>> \o r : r \in rest}

MaxRows == 3

CandidateLists == {l \in SubLists(Ranked) : Len(l) >= 1 /\ Len(l) <= MaxRows}

LapSessions == {<<"a", "c">>, <<"a", "">>}

Intents == [intent_type : {"memory_replay", "conversation"},
            interaction_style : {"passive", "interactive"}]

MaxTurns == 6       \* a session's ledger holds at most this many turns

Transcription == "tell me about c"

Narration == "look at this"

\* The ledger writes of one query: add_turn for the patient, then, outside agent
\* mode, generate_narration reads the history (get_history sweeps the ledger)
\* and add_turn stores its answer, which is also the response text.
RecordTurns_AlwaysNarrates(convs, stamps, patient_id, topic, adjusted_mode, at) ==
    LET c1 == AddTurn(convs, patient_id, topic, "patient", Transcription, at)
        h1 == Put(stamps, get_session_key(patient_id, topic), at)
    IN  [conversations |-> AddTurn(CleanConversations(c1, h1, at),
                                   patient_id, topic, "agent", Narration, at),
         history_timestamps |-> CleanStamps(h1, at),
         text |-> Narration]

RecordTurns(convs, stamps, patient_id, topic, adjusted_mode, at) ==
    LET c1 == AddTurn(convs, patient_id, topic, "patient", Transcription, at)
        h1 == Put(stamps, get_session_key(patient_id, topic), at)
        c2 == CleanConversations(c1, h1, at)
        h2 == CleanStamps(h1, at)
    IN  IF adjusted_mode # "agent"
        THEN [conversations |-> AddTurn(c2, patient_id, topic, "agent", Narration, at),
              history_timestamps |-> h2,
              text |-> Narration]
        ELSE [conversations |-> c1, history_timestamps |-> h1, text |-> None]

patient_query_test(intent) ==
    LET patient_id == db.patient_id
        topic == db.topic
        all_memories == db.rows
        display_mode == determine_display_mode(intent, get_media_availability(all_memories))
        \* filter_unseen_memories: get_shown_memories sweeps and creates the set
        expired == <<patient_id, topic>> \in
                       {SplitKey(k) : k \in ExpiredKeys(session_timestamps, now)}
        sm1 == GetOrCreate(CleanShown(shown_memories, session_timestamps, now),
                           patient_id, topic)
        ts1 == CleanStamps(session_timestamps, now)
        shown_ids == GetShown(shown_memories, session_timestamps, now, patient_id, topic)
        filtered == Unseen(all_memories, shown_ids)
        lap_reset == filtered = <<>>
        sm2 == IF lap_reset THEN ResetShown(sm1, patient_id, topic) ELSE sm1
        ts2 == IF lap_reset THEN ResetStamps(sm1, ts1, patient_id, topic) ELSE ts1
        unseen_memories == IF lap_reset THEN all_memories ELSE filtered
        selected == select_media_for_mode(display_mode, unseen_memories)
        adjusted_mode == selected[1]
        media_urls == selected[2]
        recorded == RecordTurns(conversations, history_timestamps,
                                patient_id, topic, adjusted_mode, now)
    IN  /\ all_memories # <<>>
        /\ Len(TurnsOf(conversations, patient_id, topic)) + 2 <= MaxTurns
        /\ conversations' = recorded.conversations
        /\ history_timestamps' = recorded.history_timestamps
        /\ shown_memories' = MarkShown(sm2, patient_id, topic, Range(media_urls))
        /\ session_timestamps' = Put(ts2, get_session_key(patient_id, topic), now)
        /\ last_write' = Put(last_write, <<"tracker", patient_id, topic>>, now)
        /\ served_in_lap' =
               (IF lap_reset THEN {} ELSE served_in_lap) \cup Range(media_urls)
        /\ served_in_session' =
               (IF lap_reset \/ expired THEN {} ELSE served_in_session)
                   \cup Range(media_urls)
        /\ ret' = [op |-> "patient_query_test", intent |-> intent,
                   shown_ids |-> shown_ids, filtered |-> filtered,
                   lap_reset |-> lap_reset, expired |-> expired,
                   shown_after_reset |-> ShownOf(sm2, patient_id, topic),
                   refiltered |-> Unseen(all_memories,
                                         GetShown(sm2, ts2, now, patient_id, topic)),
                   unseen_memories |-> unseen_memories,
                   displayMode |-> adjusted_mode, media |-> media_urls,
                   text |-> recorded.text]
        /\ UNCHANGED <<cache_vars, now, db, conc_vars>>

InitLap ==
    /\ shown_memories = EmptyDict
    /\ session_timestamps = EmptyDict
    /\ conversations = EmptyDict
    /\ history_timestamps = EmptyDict
    /\ now = 0
    /\ last_write = EmptyDict
    /\ \E s \in LapSessions, rows \in CandidateLists :
           db = [patient_id |-> s[1], topic |-> s[2], rows |-> rows]
    /\ served_in_lap = {}
    /\ served_in_session = {}
    /\ ConcIdle
    /\ memory_cache = EmptyDict
    /\ llm_response_cache = EmptyDict
    /\ cache_sets = EmptyDict
    /\ ret = [op |-> "init"]

NextLap ==
    \/ \E intent \in Intents : patient_query_test(intent)
    \/ Tick

SpecLap == InitLap /\ [][NextLap]_vars

(***************************************************************************)
(* A session that keeps receiving passive memory-replay requests.  The     *)
(* client sends the next request when it has the answer to the last one,   *)
(* so a request that can be made is eventually made.                       *)
(***************************************************************************)
ReplayPassive == [intent_type |-> "memory_replay", interaction_style |-> "passive"]

NextReplay == patient_query_test(ReplayPassive)

SpecReplay == InitLap /\ [][NextReplay]_vars /\ WF_vars(NextReplay)

(***************************************************************************)
(* One patient who asks about two topics in turn.                          *)
(***************************************************************************)
\* the client fills the form of its next request with another topic
ChangeTopic(topic) ==
    /\ topic # db.topic
    /\ db' = [db EXCEPT !.topic = topic]
    /\ ret' = [op |-> "form"]
    /\ UNCHANGED <<cache_vars, tracker_vars, ledger_vars, now, served_in_lap,
                   served_in_session, conc_vars>>

NextTopics ==
    \/ patient_query_test(ReplayPassive)
    \/ \E s \in LapSessions : ChangeTopic(s[2])

SpecTopics == InitLap /\ [][NextTopics]_vars

(***************************************************************************)
(* filter_unseen_memories over every candidate list and every shown set.   *)
(***************************************************************************)
MaxListLen == 3

RECURSIVE ListsOver(_, _)
\* the lists of at most n elements of set
ListsOver(set, n) ==
    IF n = 0 THEN {<<>>}
    ELSE LET shorter == ListsOver(set, n - 1)
         IN  shorter \cup {<<x>> \o l : x \in set, l \in {y \in shorter : Len(y) = n - 1}}

\* candidate rows, some sharing a file_url
FilterRows == {Row("image", "beach", "u1", 9), Row("video", "beach day", "u2", 8),
               Row("image", "dunes", "u2", 7)}

filter_unseen_memories(memories, patient_id, topic) ==
    /\ shown_memories' =
           GetOrCreate(CleanShown(shown_memories, session_timestamps, now),
                       patient_id, topic)
    /\ session_timestamps' = CleanStamps(session_timestamps, now)
    /\ ret' = [op |-> "filter_unseen_memories", memories |-> memories,
               patient_id |-> patient_id, topic |-> topic,
               shown_ids |-> GetShown(shown_memories, session_timestamps, now,
                                      patient_id, topic),
               out |-> Unseen(memories,
                              GetShown(shown_memories, session_timestamps, now,
                                       patient_id, topic))]
    /\ UNCHANGED <<cache_vars, now, last_write, query_vars, ledger_vars, conc_vars>>

NextFilter ==
    \/ \E ids \in SUBSET Urls : mark_as_shown("a", "c", ids)
    \/ \E memories \in ListsOver(FilterRows, MaxListLen) :
           filter_unseen_memories(memories, "a", "c")
    \/ Tick

SpecFilter == Init /\ [][NextFilter]_vars

(***************************************************************************)
(* Idle expiry of both stores.                                             *)
(***************************************************************************)
MaxIdleTurns == 2

IdleSessions == {<<"a", "c">>, <<"a:b", "c">>}

add_turn(patient_id, topic, role, message) ==
    /\ conversations' = AddTurn(conversations, patient_id, topic, role, message, now)
    /\ history_timestamps' =
           Put(history_timestamps, patient_id \o ":" \o topic, now)
    /\ last_write' = Put(last_write, <<"ledger", patient_id, topic>>, now)
    /\ ret' = [op |-> "add_turn", patient_id |-> patient_id, topic |-> topic,
               role |-> role, message |-> message]
    /\ UNCHANGED <<cache_vars, shown_memories, session_timestamps, now, query_vars, conc_vars>>

\* max_turns is Missing, IsNone or IntValue(n)
get_history(patient_id, topic, max_turns) ==
    /\ conversations' = CleanConversations(conversations, history_timestamps, now)
    /\ history_timestamps' = CleanStamps(history_timestamps, now)
    /\ ret' = [op |-> "get_history", patient_id |-> patient_id, topic |-> topic,
               max_turns |-> max_turns,
               out |-> Window(TurnsOf(CleanConversations(conversations,
                                                         history_timestamps, now),
                                      patient_id, topic), max_turns)]
    /\ UNCHANGED <<cache_vars, tracker_vars, now, query_vars, conc_vars>>

(***************************************************************************)
(* The reads of the ledger.                                                *)
(***************************************************************************)
\* a read of the stored list sweeps the expired ledgers first
SweptTurns(patient_id, topic) ==
    TurnsOf(CleanConversations(conversations, history_timestamps, now),
            patient_id, topic)

\* a raw window of max_turns turns
RawWindow_Single(max_turns) == max_turns

\* max_turns * 2
RawWindow(max_turns) == max_turns * 2

\* [turn.message for turn in history if turn.role == "agent"]
AgentMessages(history) ==
    LET agents == SelectSeq(history, LAMBDA turn : turn.role = "agent")
    IN  [i \in DOMAIN agents |-> agents[i].message]

\* agent_responses[-max_turns:] if agent_responses else []
LastMessages(agent_responses, max_turns) ==
    IF agent_responses = <<>> THEN <<>> ELSE LastTurns(agent_responses, max_turns)

\* max_turns is an integer
get_agent_previous_responses(patient_id, topic, max_turns) ==
    LET history == Window(SweptTurns(patient_id, topic), IntValue(RawWindow(max_turns)))
    IN  /\ conversations' = CleanConversations(conversations, history_timestamps, now)
        /\ history_timestamps' = CleanStamps(history_timestamps, now)
        /\ ret' = [op |-> "get_agent_previous_responses", patient_id |-> patient_id,
                   topic |-> topic, max_turns |-> max_turns,
                   out |-> LastMessages(AgentMessages(history), max_turns)]
        /\ UNCHANGED <<cache_vars, tracker_vars, now, query_vars, conc_vars>>

\* datetime.isoformat() of a whole hour
isoformat(timestamp) == "T" \o ToString(timestamp) \o ":00:00"

\* an export that reads the history without naming max_turns
ExportedTurns_Default(history) == Window(history, Missing)

\* self.get_history(patient_id, topic, max_turns=None)
ExportedTurns(history) == Window(history, IsNone)

export_conversation(patient_id, topic) ==
    LET history == ExportedTurns(SweptTurns(patient_id, topic))
    IN  /\ conversations' = CleanConversations(conversations, history_timestamps, now)
        /\ history_timestamps' = CleanStamps(history_timestamps, now)
        /\ ret' = [op |-> "export_conversation", patient_id |-> patient_id,
                   topic |-> topic,
                   out |-> [i \in DOMAIN history |->
                               [timestamp |-> isoformat(history[i].timestamp),
                                role |-> history[i].role,
                                message |-> history[i].message,
                                topic |-> history[i].topic]]]
        /\ UNCHANGED <<cache_vars, tracker_vars, now, query_vars, conc_vars>>

\* topic is a topic, or None when it is left out
reset_conversation(patient_id, topic) ==
    /\ conversations' = ResetConversations(conversations, patient_id, topic)
    /\ history_timestamps' =
           ResetLedgerStamps(conversations, history_timestamps, patient_id, topic)
    /\ ret' = [op |-> "reset_conversation", patient_id |-> patient_id, topic |-> topic]
    /\ UNCHANGED <<cache_vars, tracker_vars, now, query_vars, conc_vars>>

RECURSIVE JoinLines(_)
\* "\n".join(formatted)
JoinLines(formatted) ==
    IF formatted = <<>> THEN ""
    ELSE IF Len(formatted) = 1 THEN Head(formatted)
    ELSE Head(formatted) \o "\n" \o JoinLines(Tail(formatted))

\* the string get_formatted_history makes of history
FormatHistory(history) ==
    IF history = <<>> THEN "No previous conversation."
    ELSE JoinLines([i \in DOMAIN history |->
                       (IF history[i].role = "patient" THEN "Patient"
                        ELSE "You (Agent)") \o ": " \o history[i].message])

\* max_turns is Missing, IsNone or IntValue(n)
get_formatted_history(patient_id, topic, max_turns) ==
    /\ conversations' = CleanConversations(conversations, history_timestamps, now)
    /\ history_timestamps' = CleanStamps(history_timestamps, now)
    /\ ret' = [op |-> "get_formatted_history", patient_id |-> patient_id,
               topic |-> topic,
               out |-> FormatHistory(Window(SweptTurns(patient_id, topic), max_turns))]
    /\ UNCHANGED <<cache_vars, tracker_vars, now, query_vars, conc_vars>>

NextIdle ==
    \/ \E s \in IdleSessions : mark_as_shown(s[1], s[2], {"u1"})
    \/ \E s \in IdleSessions : get_shown_memories(s[1], s[2])
    \/ \E s \in IdleSessions :
           /\ Len(TurnsOf(conversations, s[1], s[2])) < MaxIdleTurns
           /\ add_turn(s[1], s[2], "patient", Transcription)
    \/ \E s \in IdleSessions : get_history(s[1], s[2], IntValue(10))
    \/ \E s \in IdleSessions : get_formatted_history(s[1], s[2], IntValue(6))
    \/ \E s \in IdleSessions : export_conversation(s[1], s[2])
    \/ Tick

SpecIdle == Init /\ [][NextIdle]_vars

(***************************************************************************)
(* One ledger and its reads.                                               *)
(***************************************************************************)
MaxLedgerTurns == 11

WindowPatient == "a"

WindowTopic == "c"

Roles == {"patient", "agent"}

\* the values of max_turns in the calls of get_history
WindowArgs == {Missing, IsNone, IntValue(0), IntValue(5)}

\* the values of max_turns in the calls of get_agent_previous_responses
AgentWindowArgs == {0, 1, 3}

\* the message of the n-th turn of a session tells its role and n
TurnMessage(role, n) == (IF role = "agent" THEN "a" ELSE "p") \o ToString(n)

NextWindow ==
    \/ \E role \in Roles :
           LET n == Len(TurnsOf(conversations, WindowPatient, WindowTopic))
           IN  /\ n < MaxLedgerTurns
               /\ add_turn(WindowPatient, WindowTopic, role, TurnMessage(role, n + 1))
    \/ \E max_turns \in WindowArgs : get_history(WindowPatient, WindowTopic, max_turns)
    \/ \E max_turns \in AgentWindowArgs :
           get_agent_previous_responses(WindowPatient, WindowTopic, max_turns)
    \/ export_conversation(WindowPatient, WindowTopic)

SpecWindow == Init /\ [][NextWindow]_vars

(***************************************************************************)
(* Resets and idle expiry of the ledger.                                   *)
(***************************************************************************)
MaxSessionTurns == 2

\* None is a reset_conversation without topic
ResetTopics == {None, "", "c"}

NextLedger ==
    \/ \E s \in Sessions :
           LET n == Len(TurnsOf(conversations, s[1], s[2]))
           IN  /\ n < MaxSessionTurns
               /\ add_turn(s[1], s[2], "patient", TurnMessage("patient", n + 1))
    \/ \E s \in Sessions : get_history(s[1], s[2], Missing)
    \/ \E patient_id \in Patients, topic \in ResetTopics :
           reset_conversation(patient_id, topic)
    \/ Tick

SpecLedger == Init /\ [][NextLedger]_vars

(***************************************************************************)
(* The resolver as a function of its inputs.                               *)
(***************************************************************************)
MaxImages == 6
MaxVideos == 1

Availabilities ==
    {[total_images |-> i, total_videos |-> h + v,
      video_orientations |-> [horizontal |-> h, vertical |-> v]] :
        i \in 0..MaxImages, h \in 0..MaxVideos, v \in 0..MaxVideos}

\* i images, h horizontal and v vertical videos, ranked images first
Inventory(i, h, v) ==
    [n \in 1..i |-> Row("image", "beach", "i" \o ToString(n), 9)]
    \o [n \in 1..h |-> Row("video", "beach day", "h" \o ToString(n), 8)]
    \o [n \in 1..v |-> Row("video", "a vertical clip", "v" \o ToString(n), 7)]

Inventories ==
    {Inventory(i, h, v) : i \in 0..MaxImages, h \in 0..MaxVideos, v \in 0..MaxVideos}

\* what the language model may answer for the two fields the resolver reads
AnyIntents == [intent_type : {"memory_replay", "conversation", "other"},
               interaction_style : {"passive", "interactive"}]

\* classify_intent_and_media's determine_display_mode, then the handler's
\* select_media_for_mode over the unseen memories
Resolve ==
    /\ ret.op = "inputs"
    /\ ret' = [op |-> "resolve", intent |-> ret.intent,
               media_availability |-> ret.media_availability,
               unseen_memories |-> ret.unseen_memories,
               display_mode |-> determine_display_mode(ret.intent,
                                                       ret.media_availability),
               result |-> select_media_for_mode(
                              determine_display_mode(ret.intent,
                                                     ret.media_availability),
                              ret.unseen_memories)]
    /\ UNCHANGED <<cache_vars, tracker_vars, ledger_vars, now, query_vars, conc_vars>>

InitResolver ==
    /\ shown_memories = EmptyDict
    /\ session_timestamps = EmptyDict
    /\ conversations = EmptyDict
    /\ history_timestamps = EmptyDict
    /\ now = 0
    /\ last_write = EmptyDict
    /\ db = [patient_id |-> "a", topic |-> "c", rows |-> <<>>]
    /\ served_in_lap = {}
    /\ served_in_session = {}
    /\ ConcIdle
    /\ memory_cache = EmptyDict
    /\ llm_response_cache = EmptyDict
    /\ cache_sets = EmptyDict
    /\ \E intent \in AnyIntents, avail \in Availabilities, inv \in Inventories :
           ret = [op |-> "inputs", intent |-> intent, media_availability |-> avail,
                  unseen_memories |-> inv]

NextResolver == Resolve

SpecResolver == InitResolver /\ [][NextResolver]_vars

(***************************************************************************)
(* The resolver over arguments of any shape.                               *)
(*                                                                         *)
(* Python checks nothing at the call: a dict may lack a key, a value may   *)
(* be None.  A value that may be absent or None is a record with a tag:    *)
(* "missing" (the key is not in the dict), "none" (the value is None),     *)
(* "int" with val, "dict" with the entries, "list" with rows.  The result  *)
(* of a call is raised (None, or the name of the exception) and value.     *)
(***************************************************************************)
Returned(v) == [raised |-> None, value |-> v]

Raised(exception) == [raised |-> exception, value |-> None]

\* d[key] > 0, for an entry of a dict that is there
\* (a missing key raises KeyError, None > 0 raises TypeError)
SubscriptRaises(entry) ==
    IF entry.tag = "missing" THEN "KeyError"
    ELSE IF entry.tag = "none" THEN "TypeError"
    ELSE None

determine_display_mode_untyped(intent, media_availability) ==
    IF intent.intent_type = "conversation" \/ intent.interaction_style = "interactive"
    THEN Returned("agent")
    ELSE IF media_availability.tag = "none" THEN Raised("TypeError")
    ELSE LET orientations == media_availability.video_orientations
         IN  IF SubscriptRaises(orientations) # None
             THEN Raised(SubscriptRaises(orientations))
             ELSE IF SubscriptRaises(orientations.vertical) # None
             THEN Raised(SubscriptRaises(orientations.vertical))
             ELSE IF SubscriptRaises(orientations.horizontal) # None
             THEN Raised(SubscriptRaises(orientations.horizontal))
             ELSE IF media_availability.total_images.tag = "missing"
             THEN Raised("KeyError")
             ELSE IF orientations.vertical.val > 0 THEN Returned("vertical-video")
             ELSE IF orientations.horizontal.val > 0 THEN Returned("video")
             ELSE IF media_availability.total_images.tag = "none"
             THEN Raised("TypeError")
             ELSE LET total_images == media_availability.total_images.val
                  IN  IF total_images >= 5 THEN Returned("5-pic")
                      ELSE IF total_images >= 4 THEN Returned("4-pic")
                      ELSE IF total_images >= 3 THEN Returned("3-pic")
                      ELSE IF total_images >= 1 THEN Returned("3-pic")
                      ELSE Returned("agent")

\* file_type.lower() or description.lower() on a None raises AttributeError
RowRaises(memory) ==
    \/ memory.file_type = None
    \/ Lower(memory.file_type) = "video" /\ memory.description = None

select_media_for_mode_untyped(display_mode, memories) ==
    IF memories.tag = "none" THEN Raised("TypeError")
    ELSE IF \E i \in DOMAIN memories.rows : RowRaises(memories.rows[i])
    THEN Raised("AttributeError")
    ELSE Returned(select_media_for_mode(display_mode, memories.rows))

\* determine_display_mode, then select_media_for_mode with the mode it gave
resolve_untyped(intent, media_availability, memories) ==
    LET display_mode == determine_display_mode_untyped(intent, media_availability)
    IN  IF display_mode.raised # None THEN display_mode
        ELSE select_media_for_mode_untyped(display_mode.value, memories)

CountValues == {-1, 0, 3}

Counts == {Missing, IsNone} \cup {IntValue(n) : n \in CountValues}

Orientations ==
    {Missing, IsNone}
    \cup {[tag |-> "dict", horizontal |-> h, vertical |-> v] : h \in Counts, v \in Counts}

UntypedAvailabilities ==
    {IsNone}
    \cup {[tag |-> "dict", total_images |-> i, video_orientations |-> o] :
              i \in Counts, o \in Orientations}

UntypedMemories ==
    {IsNone}
    \cup {[tag |-> "list", rows |-> rows] :
              rows \in {<<>>, Inventory(3, 0, 0), Inventory(1, 1, 0),
                        <<Row("image", None, "i1", 9)>>,
                        <<Row("video", None, "h1", 9)>>,
                        <<Row(None, "beach", "i1", 9)>>}}

ResolveUntyped ==
    /\ ret.op = "untyped_inputs"
    /\ ret' = [op |-> "resolve_untyped", intent |-> ret.intent,
               media_availability |-> ret.media_availability,
               memories |-> ret.memories,
               result |-> resolve_untyped(ret.intent, ret.media_availability,
                                          ret.memories)]
    /\ UNCHANGED <<cache_vars, tracker_vars, ledger_vars, now, query_vars, conc_vars>>

InitUntyped ==
    /\ shown_memories = EmptyDict
    /\ session_timestamps = EmptyDict
    /\ conversations = EmptyDict
    /\ history_timestamps = EmptyDict
    /\ now = 0
    /\ last_write = EmptyDict
    /\ db = [patient_id |-> "a", topic |-> "c", rows |-> <<>>]
    /\ served_in_lap = {}
    /\ served_in_session = {}
    /\ ConcIdle
    /\ memory_cache = EmptyDict
    /\ llm_response_cache = EmptyDict
    /\ cache_sets = EmptyDict
    /\ \E intent \in AnyIntents, avail \in UntypedAvailabilities,
          memories \in UntypedMemories :
           ret = [op |-> "untyped_inputs", intent |-> intent,
                  media_availability |-> avail, memories |-> memories]

NextUntyped == ResolveUntyped

SpecUntyped == InitUntyped /\ [][NextUntyped]_vars

(***************************************************************************)
(* classify_intent_with_gemini.                                            *)
(*                                                                         *)
(* generate_text either raises or returns the text of the model.  A text   *)
(* is a payload, bare or inside a markdown fence; confidence is counted in *)
(* tenths.                                                                 *)
(***************************************************************************)
\* the markdown fence, three backquotes; a backquote is written as an
\* apostrophe here
Fence == "'''"

JsonFence == Fence \o "json"

\* position of the first occurrence of sub in s (0 when there is none)
Find(s, sub) ==
    LET hits == {i \in 1..(Len(s) - Len(sub) + 1) : SubSeq(s, i, i + Len(sub) - 1) = sub}
    IN  IF hits = {} THEN 0 ELSE CHOOSE i \in hits : \A j \in hits : i <= j

\* s.split(sep)[0]
SplitFirst(s, sep) ==
    IF Find(s, sep) = 0 THEN s ELSE SubSeq(s, 1, Find(s, sep) - 1)

\* s.split(sep)[1], for an s that holds sep
SplitSecond(s, sep) ==
    SplitFirst(SubSeq(s, Find(s, sep) + Len(sep), Len(s)), sep)

RECURSIVE Strip(_)
\* s.strip()
Strip(s) ==
    IF s = "" THEN s
    ELSE IF SubSeq(s, 1, 1) = " " THEN Strip(SubSeq(s, 2, Len(s)))
    ELSE IF SubSeq(s, Len(s), Len(s)) = " " THEN Strip(SubSeq(s, 1, Len(s) - 1))
    ELSE s

DocConversation ==
    "{\"intent_type\":\"conversation\",\"interaction_style\":\"interactive\",\"confidence\":0.9}"

DocReplay ==
    "{\"intent_type\":\"memory_replay\",\"interaction_style\":\"passive\",\"confidence\":0.8}"

DocOutOfRange ==
    "{\"intent_type\":\"reminisce\",\"interaction_style\":\"watch\",\"confidence\":1.7}"

DocList == "[]"

DocTruncated == "{\"intent_type\":\"memory_replay\",\"interaction_sty"

DocProse == "The patient wants to see memories."

\* json.loads(text): the parsed value, or JSONDecodeError
json_loads(text) ==
    CASE text = DocConversation ->
             Returned([intent_type |-> "conversation",
                       interaction_style |-> "interactive", confidence |-> 9])
      [] text = DocReplay ->
             Returned([intent_type |-> "memory_replay",
                       interaction_style |-> "passive", confidence |-> 8])
      [] text = DocOutOfRange ->
             Returned([intent_type |-> "reminisce",
                       interaction_style |-> "watch", confidence |-> 17])
      [] text = DocList -> Returned(<<>>)
      [] OTHER -> Raised("JSONDecodeError")

\* the dict of the except branch
Fallback(topic) ==
    [intent_type |-> "memory_replay", interaction_style |-> "passive",
     emotional_tone |-> "curious",
     specific_request |-> "wants to learn about " \o topic, confidence |-> 5]

\* the body of the try block, for a text that generate_text returned
ParseResponse(response) ==
    json_loads(IF Contains(response, JsonFence)
               THEN Strip(SplitFirst(SplitSecond(response, JsonFence), Fence))
               ELSE IF Contains(response, Fence)
               THEN Strip(SplitFirst(SplitSecond(response, Fence), Fence))
               ELSE response)

\* a classifier whose try block has no except branch
classify_intent_with_gemini_NoExcept(generated, topic) ==
    IF generated.raised # None THEN generated ELSE ParseResponse(generated.value)

\* generated is what generate_text did: raised, or the text it returned
classify_intent_with_gemini(generated, topic) ==
    IF generated.raised # None THEN Returned(Fallback(topic))
    ELSE IF ParseResponse(generated.value).raised # None THEN Returned(Fallback(topic))
    ELSE ParseResponse(generated.value)

Payloads ==
    {[text |-> DocConversation, kind |-> "descriptor"],
     [text |-> DocReplay, kind |-> "descriptor"],
     [text |-> DocOutOfRange, kind |-> "out_of_range"],
     [text |-> DocList, kind |-> "not_a_dict"],
     [text |-> DocTruncated, kind |-> "malformed"],
     [text |-> DocProse, kind |-> "non_json"]}

\* how the model wraps its answer
Wrappings == {"bare", "json_fence", "fence", "prose_and_fence", "open_fence"}

Wrap(wrapping, text) ==
    CASE wrapping = "bare" -> text
      [] wrapping = "json_fence" -> JsonFence \o " " \o text \o " " \o Fence
      [] wrapping = "fence" -> Fence \o " " \o text \o " " \o Fence
      [] wrapping = "prose_and_fence" -> "Here it is: " \o JsonFence \o " " \o text \o " " \o Fence \o " Done."
      [] wrapping = "open_fence" -> JsonFence \o " " \o text

\* what generate_text may do, with the kind of thing it did
Generations ==
    {[raised |-> e, value |-> None, kind |-> "raised"] :
         e \in {"TimeoutError", "Exception"}}
    \cup {[raised |-> None, value |-> Wrap(w, p.text), kind |-> p.kind] :
              w \in Wrappings, p \in Payloads}

ClassifierTopics == {"", "c", "beach day"}

Classify ==
    /\ ret.op = "generated"
    /\ ret' = [op |-> "classify_intent_with_gemini", generated |-> ret.generated,
               topic |-> ret.topic,
               result |-> classify_intent_with_gemini(
                              [raised |-> ret.generated.raised,
                               value |-> ret.generated.value], ret.topic)]
    /\ UNCHANGED <<cache_vars, tracker_vars, ledger_vars, now, query_vars, conc_vars>>

InitClassifier ==
    /\ shown_memories = EmptyDict
    /\ session_timestamps = EmptyDict
    /\ conversations = EmptyDict
    /\ history_timestamps = EmptyDict
    /\ now = 0
    /\ last_write = EmptyDict
    /\ db = [patient_id |-> "a", topic |-> "c", rows |-> <<>>]
    /\ served_in_lap = {}
    /\ served_in_session = {}
    /\ ConcIdle
    /\ memory_cache = EmptyDict
    /\ llm_response_cache = EmptyDict
    /\ cache_sets = EmptyDict
    /\ \E generated \in Generations, topic \in ClassifierTopics :
           ret = [op |-> "generated", generated |-> generated, topic |-> topic]

NextClassifier == Classify

SpecClassifier == InitClassifier /\ [][NextClassifier]_vars

(***************************************************************************)
(* cache_manager.py: CacheManager.                                         *)
(*                                                                         *)
(* In this specification the clock now counts minutes.  The md5 digest of  *)
(* _generate_key is taken to be one-to-one on the joined strings, so a     *)
(* cache key is the joined string itself.                                  *)
(***************************************************************************)
ttl_minutes == 30

RECURSIVE JoinColon(_)
\* ":".join(args)
JoinColon(args) ==
    IF args = <<>> THEN ""
    ELSE IF Len(args) = 1 THEN Head(args)
    ELSE Head(args) \o ":" \o JoinColon(Tail(args))

\* _generate_key(*args), args already turned into strings
_generate_key(args) == JoinColon(args)

\* _generate_key("memories", topic, patient_id or "default")
generate_key(topic, patient_id) ==
    _generate_key(<<"memories", topic,
                    IF Truthy(patient_id) THEN patient_id ELSE "default">>)

\* an expiry test that takes an entry of exactly the ttl for expired
is_expired_AtTtl(timestamp, t0) == t0 - timestamp >= ttl_minutes

\* _is_expired(timestamp) at time t0
is_expired(timestamp, t0) == t0 - timestamp > ttl_minutes

\* a store that keeps the timestamp of the entry it replaces
StoreEntry_KeepStamp(cache, cache_key, data, t0) ==
    Put(cache, cache_key,
        [data |-> data,
         timestamp |-> IF cache_key \in DOMAIN cache THEN cache[cache_key].timestamp
                       ELSE t0])

\* cache[cache_key] = {"data": data, "timestamp": datetime.now()}
StoreEntry(cache, cache_key, data, t0) ==
    Put(cache, cache_key, [data |-> data, timestamp |-> t0])

\* the lookup of get_memories / get_llm_response: is it a hit
IsHit(cache, cache_key, t0) ==
    cache_key \in DOMAIN cache /\ ~is_expired(cache[cache_key].timestamp, t0)

\* a lookup that drops every expired entry it finds
EvictIfStale_Sweep(cache, cache_key, t0) ==
    IF cache_key \in DOMAIN cache /\ ~IsHit(cache, cache_key, t0)
    THEN [k \in {x \in DOMAIN cache : ~is_expired(cache[x].timestamp, t0)} |-> cache[k]]
    ELSE cache

\* the cache after the lookup: an expired entry of the key is deleted
EvictIfStale(cache, cache_key, t0) ==
    IF cache_key \in DOMAIN cache /\ ~IsHit(cache, cache_key, t0)
    THEN Del(cache, cache_key) ELSE cache

\* a sweep that also drops the entries of exactly the ttl
DropExpired_AtTtl(cache, t0) ==
    [k \in {x \in DOMAIN cache : ~is_expired_AtTtl(cache[x].timestamp, t0)} |-> cache[k]]

\* one of the two loops of cleanup_expired
DropExpired(cache, t0) ==
    [k \in {x \in DOMAIN cache : ~is_expired(cache[x].timestamp, t0)} |-> cache[k]]

\* one of the two dicts of get_cache_stats
CacheStats(cache, t0) ==
    LET expired == Cardinality({k \in DOMAIN cache : is_expired(cache[k].timestamp, t0)})
    IN  [total |-> Cardinality(DOMAIN cache),
         active |-> Cardinality(DOMAIN cache) - expired,
         expired |-> expired]

MaxCacheNow == 75

\* the clock advances by half a ttl, so that an entry is read at exactly its ttl
CacheTickMinutes == ttl_minutes \div 2

\* (topic, patient_id) of the calls: the last two are each other's swap
CacheArgs == {<<"c", None>>, <<"x", "x:x">>, <<"x:x", "x">>}

\* get_memories_cached stores a search result only when it is not empty
CachedLists == {<<"u1">>, <<"u2">>}

\* (prompt, str(temperature)) of the calls
LlmArgs == {<<"q", "0.8">>}

LlmResponses == {"r1"}

\* history: what the last set of a key stored, when, with which arguments,
\* and whether it replaced an expired entry that held other data
Recorded(data, t0, topic, patient_id, replaced) ==
    [data |-> data, at |-> t0, topic |-> topic, patient_id |-> patient_id,
     over |-> \E e \in replaced : e.data # data /\ is_expired(e.timestamp, t0)]

\* history: the entries a set replaces
Replaced(cache, cache_key) == {cache[k] : k \in {cache_key} \cap DOMAIN cache}

get_memories(topic, patient_id) ==
    LET cache_key == generate_key(topic, patient_id)
        hit == IsHit(memory_cache, cache_key, now)
    IN  /\ memory_cache' = EvictIfStale(memory_cache, cache_key, now)
        /\ ret' = [op |-> "get_memories", cache_key |-> cache_key,
                   topic |-> topic, patient_id |-> patient_id, hit |-> hit,
                   data |-> IF hit THEN memory_cache[cache_key].data ELSE <<>>]
        /\ UNCHANGED <<llm_response_cache, cache_sets, tracker_vars, ledger_vars,
                       now, query_vars, conc_vars>>

set_memories(topic, memories, patient_id) ==
    LET cache_key == generate_key(topic, patient_id)
    IN  /\ memory_cache' = StoreEntry(memory_cache, cache_key, memories, now)
        /\ cache_sets' = Put(cache_sets, cache_key,
                             Recorded(memories, now, topic, patient_id,
                                      Replaced(memory_cache, cache_key)))
        /\ ret' = [op |-> "set_memories", cache_key |-> cache_key, data |-> memories,
                   replaced |-> Replaced(memory_cache, cache_key)]
        /\ UNCHANGED <<llm_response_cache, tracker_vars, ledger_vars, now,
                       query_vars, conc_vars>>

get_llm_response(prompt, temperature) ==
    LET cache_key == _generate_key(<<"llm", prompt, temperature>>)
        hit == IsHit(llm_response_cache, cache_key, now)
    IN  /\ llm_response_cache' = EvictIfStale(llm_response_cache, cache_key, now)
        /\ ret' = [op |-> "get_llm_response", cache_key |-> cache_key, hit |-> hit,
                   data |-> IF hit THEN llm_response_cache[cache_key].data ELSE None]
        /\ UNCHANGED <<memory_cache, cache_sets, tracker_vars, ledger_vars,
                       now, query_vars, conc_vars>>

set_llm_response(prompt, response, temperature) ==
    LET cache_key == _generate_key(<<"llm", prompt, temperature>>)
    IN  /\ llm_response_cache' = StoreEntry(llm_response_cache, cache_key, response, now)
        /\ cache_sets' = Put(cache_sets, cache_key,
                             Recorded(response, now, prompt, temperature,
                                      Replaced(llm_response_cache, cache_key)))
        /\ ret' = [op |-> "set_llm_response", cache_key |-> cache_key, data |-> response,
                   replaced |-> Replaced(llm_response_cache, cache_key)]
        /\ UNCHANGED <<memory_cache, tracker_vars, ledger_vars, now,
                       query_vars, conc_vars>>

\* topic is a topic or None
invalidate_memories(topic, patient_id) ==
    LET cache_key == generate_key(topic, patient_id)
    IN  /\ IF Truthy(topic)
           THEN /\ memory_cache' = IF cache_key \in DOMAIN memory_cache
                                   THEN Del(memory_cache, cache_key)
                                   ELSE memory_cache
                /\ cache_sets' = IF cache_key \in DOMAIN cache_sets
                                 THEN Del(cache_sets, cache_key)
                                 ELSE cache_sets
           ELSE /\ memory_cache' = EmptyDict
                /\ cache_sets' = [k \in {x \in DOMAIN cache_sets :
                                            ~StartsWith(x, "memories:")} |->
                                     cache_sets[k]]
        /\ ret' = [op |-> "invalidate_memories"]
        /\ UNCHANGED <<llm_response_cache, tracker_vars, ledger_vars, now,
                       query_vars, conc_vars>>

invalidate_llm_responses ==
    /\ llm_response_cache' = EmptyDict
    /\ cache_sets' = [k \in {x \in DOMAIN cache_sets : ~StartsWith(x, "llm:")} |->
                          cache_sets[k]]
    /\ ret' = [op |-> "invalidate_llm_responses"]
    /\ UNCHANGED <<memory_cache, tracker_vars, ledger_vars, now, query_vars, conc_vars>>

cleanup_expired ==
    /\ memory_cache' = DropExpired(memory_cache, now)
    /\ llm_response_cache' = DropExpired(llm_response_cache, now)
    /\ ret' = [op |-> "cleanup_expired",
               cleaned |-> (Cardinality(DOMAIN memory_cache)
                               - Cardinality(DOMAIN DropExpired(memory_cache, now)))
                           + (Cardinality(DOMAIN llm_response_cache)
                               - Cardinality(DOMAIN DropExpired(llm_response_cache, now)))]
    /\ UNCHANGED <<cache_sets, tracker_vars, ledger_vars, now, query_vars, conc_vars>>

get_cache_stats ==
    /\ ret' = [op |-> "get_cache_stats",
               out |-> [memory_cache |-> CacheStats(memory_cache, now),
                        llm_cache |-> CacheStats(llm_response_cache, now),
                        ttl_minutes |-> ttl_minutes]]
    /\ UNCHANGED <<cache_vars, tracker_vars, ledger_vars, now, query_vars, conc_vars>>

CacheTick ==
    /\ now + CacheTickMinutes <= MaxCacheNow
    /\ now' = now + CacheTickMinutes
    /\ ret' = [op |-> "tick"]
    /\ UNCHANGED <<cache_vars, tracker_vars, ledger_vars, query_vars, conc_vars>>

NextCache ==
    \/ \E a \in CacheArgs : get_memories(a[1], a[2])
    \/ \E a \in CacheArgs, memories \in CachedLists : set_memories(a[1], memories, a[2])
    \/ \E a \in LlmArgs : get_llm_response(a[1], a[2])
    \/ \E a \in LlmArgs, response \in LlmResponses : set_llm_response(a[1], response, a[2])
    \/ \E a \in CacheArgs \cup {<<None, None>>} : invalidate_memories(a[1], a[2])
    \/ invalidate_llm_responses
    \/ cleanup_expired
    \/ get_cache_stats
    \/ CacheTick

SpecCache == Init /\ [][NextCache]_vars

(***************************************************************************)
(* The memory cache read and written for several patients of one topic.    *)
(***************************************************************************)
\* (topic, patient_id): no patient id, an empty one, and two named patients
IsolationArgs == {<<"c", None>>, <<"c", "">>, <<"c", "default">>, <<"c", "a">>}

NextIsolation ==
    \/ \E a \in IsolationArgs : get_memories(a[1], a[2])
    \/ \E a \in IsolationArgs, memories \in CachedLists :
           set_memories(a[1], memories, a[2])
    \/ CacheTick

SpecIsolation == Init /\ [][NextIsolation]_vars

(***************************************************************************)
(* The event-loop thread and the narration worker thread.                  *)
(*                                                                         *)
(* Every handler is a coroutine of the one event loop, and neither         *)
(* mark_as_shown nor add_turn awaits: the loop thread finishes a call      *)
(* before it starts the next one.  generate_narration runs in a worker     *)
(* thread (asyncio.to_thread) and calls get_history there, so the          *)
(* statements of the ledger's sweep interleave with the statements of the  *)
(* call the loop thread is in.                                             *)
(***************************************************************************)
NCalls == 3

ConcPatient == "a"

ConcTopic == "c"

ConcKey == ConcPatient \o ":" \o ConcTopic

\* the ids of the i-th mark_as_shown call; distinct calls share no id
CallIds(i) == {"u" \o ToString(i)}

\* the worker has selected key as expired and has not finished deleting it
WindowOpen(key) ==
    /\ worker.pc \in {"check", "del_conv", "del_stamp"}
    /\ key \in Range(worker.keys)

StartMark(i) ==
    /\ loop.op = "idle"
    /\ i \notin marks_done
    /\ loop' = [op |-> "mark_as_shown", call |-> i, pc |-> "patient"]
    /\ ret' = [op |-> "call"]
    /\ UNCHANGED <<cache_vars, tracker_vars, ledger_vars, now, query_vars, marks_done, worker, raced>>

\* the statements of mark_as_shown, one at a time
MarkStep ==
    /\ loop.op = "mark_as_shown"
    /\ \/ /\ loop.pc = "patient"
          /\ shown_memories' = EnsurePatient(shown_memories, ConcPatient)
          /\ loop' = [loop EXCEPT !.pc = "topic"]
          /\ ret' = [op |-> "step"]
          /\ UNCHANGED <<cache_vars, session_timestamps, last_write, marks_done>>
       \/ /\ loop.pc = "topic"
          /\ shown_memories' = EnsureTopic(shown_memories, ConcPatient, ConcTopic, {})
          /\ loop' = [loop EXCEPT !.pc = "update"]
          /\ ret' = [op |-> "step"]
          /\ UNCHANGED <<cache_vars, session_timestamps, last_write, marks_done>>
       \/ /\ loop.pc = "update"
          /\ shown_memories' =
                 UpdateShown(shown_memories, ConcPatient, ConcTopic, CallIds(loop.call))
          /\ loop' = [loop EXCEPT !.pc = "stamp"]
          /\ ret' = [op |-> "step"]
          /\ UNCHANGED <<cache_vars, session_timestamps, last_write, marks_done>>
       \/ /\ loop.pc = "stamp"
          /\ session_timestamps' = Put(session_timestamps, ConcKey, now)
          /\ last_write' = Put(last_write, <<"tracker", ConcPatient, ConcTopic>>, now)
          /\ marks_done' = marks_done \cup {loop.call}
          /\ loop' = [op |-> "idle"]
          /\ ret' = [op |-> "mark_returned", call |-> loop.call]
          /\ UNCHANGED shown_memories
    /\ UNCHANGED <<cache_vars, ledger_vars, now, query_vars, worker, raced>>

StartAddTurn(role, message) ==
    /\ loop.op = "idle"
    /\ Len(TurnsOf(conversations, ConcPatient, ConcTopic)) < MaxIdleTurns
    /\ loop' = [op |-> "add_turn", role |-> role, message |-> message,
                pc |-> "patient", in_window |-> WindowOpen(ConcKey)]
    /\ ret' = [op |-> "call"]
    /\ UNCHANGED <<cache_vars, tracker_vars, ledger_vars, now, query_vars, marks_done, worker, raced>>

\* the statements of add_turn, one at a time
AddTurnStep ==
    /\ loop.op = "add_turn"
    /\ \/ /\ loop.pc = "patient"
          /\ conversations' = EnsurePatient(conversations, ConcPatient)
          /\ loop' = [loop EXCEPT !.pc = "topic"]
          /\ ret' = [op |-> "step"]
          /\ UNCHANGED <<cache_vars, history_timestamps, last_write, raced>>
       \/ /\ loop.pc = "topic"
          /\ conversations' = EnsureTopic(conversations, ConcPatient, ConcTopic, <<>>)
          /\ loop' = [loop EXCEPT !.pc = "append"]
          /\ ret' = [op |-> "step"]
          /\ UNCHANGED <<cache_vars, history_timestamps, last_write, raced>>
       \/ /\ loop.pc = "append"
          /\ IF ConcTopic \in DOMAIN conversations[ConcPatient]
             THEN /\ conversations' =
                         AppendTurn(conversations, ConcPatient, ConcTopic,
                                    ConversationTurn(now, loop.role, loop.message,
                                                     ConcTopic))
                  /\ loop' = [loop EXCEPT !.pc = "stamp"]
                  /\ ret' = [op |-> "step"]
             ELSE \* KeyError: the sweep deleted the list a statement ago
                  /\ conversations' = conversations
                  /\ loop' = [op |-> "idle"]
                  /\ ret' = [op |-> "add_turn_raised"]
          /\ UNCHANGED <<cache_vars, history_timestamps, last_write, raced>>
       \/ /\ loop.pc = "stamp"
          /\ history_timestamps' = Put(history_timestamps, ConcKey, now)
          /\ last_write' = Put(last_write, <<"ledger", ConcPatient, ConcTopic>>, now)
          /\ raced' = IF loop.in_window /\ WindowOpen(ConcKey)
                      THEN raced \cup {ConversationTurn(now, loop.role, loop.message,
                                                        ConcTopic)}
                      ELSE raced
          /\ loop' = [op |-> "idle"]
          /\ ret' = [op |-> "add_turn_returned"]
          /\ UNCHANGED conversations
    /\ UNCHANGED <<cache_vars, shown_memories, session_timestamps, now, query_vars, marks_done, worker>>

\* get_history enters _clean_old_sessions, which starts to iterate over
\* session_timestamps.items(): the iterator remembers the size of the dict
WorkerIter ==
    /\ worker.pc \in {"idle", "raised"}
    /\ worker' = [pc |-> "select", used |-> Cardinality(DOMAIN history_timestamps)]
    /\ raced' = {}
    /\ ret' = [op |-> "step"]
    /\ UNCHANGED <<cache_vars, tracker_vars, ledger_vars, now, query_vars, loop, marks_done>>

\* the iteration that builds expired_keys; the dict iterator raises
\* RuntimeError (dictionary changed size during iteration) when the loop
\* thread has added a key since the iterator was made
WorkerSelect ==
    /\ worker.pc = "select"
    /\ IF Cardinality(DOMAIN history_timestamps) # worker.used
       THEN /\ worker' = [pc |-> "raised"]
            /\ ret' = [op |-> "get_history_raised", exception |-> "RuntimeError"]
       ELSE /\ \E keys \in {l \in ListsOver(ExpiredKeys(history_timestamps, now),
                                   Cardinality(ExpiredKeys(history_timestamps, now))) :
                               Range(l) = ExpiredKeys(history_timestamps, now)} :
                   worker' = [pc |-> IF keys = <<>> THEN "read" ELSE "check",
                              keys |-> keys]
            /\ ret' = [op |-> "step"]
    /\ UNCHANGED <<cache_vars, tracker_vars, ledger_vars, now, query_vars, loop,
                   marks_done, raced>>

\* the body of "for key in expired_keys", one statement at a time
WorkerStep ==
    /\ worker.pc \in {"check", "del_conv", "del_stamp"}
    /\ LET key == Head(worker.keys)
           patient_id == SplitKey(key)[1]
           topic == SplitKey(key)[2]
           present == patient_id \in DOMAIN conversations
                      /\ topic \in DOMAIN conversations[patient_id]
       IN  \/ /\ worker.pc = "check"
              /\ worker' = [worker EXCEPT !.pc = IF present THEN "del_conv"
                                                 ELSE "del_stamp"]
              /\ UNCHANGED ledger_vars
           \/ /\ worker.pc = "del_conv"
              /\ IF present
                 THEN /\ conversations' =
                             Put(conversations, patient_id,
                                 Del(conversations[patient_id], topic))
                      /\ worker' = [worker EXCEPT !.pc = "del_stamp"]
                 ELSE /\ conversations' = conversations
                      /\ worker' = [pc |-> "raised"]
              /\ UNCHANGED history_timestamps
           \/ /\ worker.pc = "del_stamp"
              /\ IF key \in DOMAIN history_timestamps
                 THEN /\ history_timestamps' = Del(history_timestamps, key)
                      /\ worker' = [pc |-> IF Tail(worker.keys) = <<>> THEN "read"
                                           ELSE "check",
                                    keys |-> Tail(worker.keys)]
                 ELSE /\ history_timestamps' = history_timestamps
                      /\ worker' = [pc |-> "raised"]
              /\ UNCHANGED conversations
    /\ ret' = [op |-> "step"]
    /\ UNCHANGED <<cache_vars, tracker_vars, now, query_vars, loop, marks_done, raced>>

\* the rest of get_history, after the sweep
WorkerRead ==
    /\ worker.pc = "read"
    /\ worker' = [pc |-> "idle"]
    /\ ret' = [op |-> "get_history_returned",
               out |-> LastTurns(TurnsOf(conversations, ConcPatient, ConcTopic), 6)]
    /\ UNCHANGED <<cache_vars, tracker_vars, ledger_vars, now, query_vars, loop, marks_done, raced>>

\* an hour is long: no call is in progress when the clock advances
ConcTick ==
    /\ loop.op = "idle"
    /\ worker.pc = "idle"
    /\ Tick

NextConc ==
    \/ \E i \in 1..NCalls : StartMark(i)
    \/ MarkStep
    \/ StartAddTurn("patient", Transcription)
    \/ AddTurnStep
    \/ WorkerIter
    \/ WorkerSelect
    \/ WorkerStep
    \/ WorkerRead
    \/ ConcTick

SpecConc == Init /\ [][NextConc]_vars


(***************************************************************************)
(* The Gemini client: generate_text and its list of models to try.         *)
(***************************************************************************)

\* what generate_content does in one attempt: an answer with a candidate, an
\* answer with no candidate, or an exception of the library
AttemptOutcomes == {"text", "no candidates", "raises"}

\* the values of model_name the callers pass, a name that is already
\* qualified, and a None
RequestedModels == {"gemini-2.5-flash", "gemini-2.0-flash-exp", "models/tuned", None}

\* candidates[0].content.parts[0].text of the answer to attempt i
CandidateText(i) == "  reply " \o ToString(i) \o " "

\* the exception object attempt i raises: a distinct object per attempt
ErrorOf(outcome, i) ==
    IF outcome = "raises" THEN "ResourceExhausted at attempt " \o ToString(i)
    ELSE "Exception: No response generated at attempt " \o ToString(i)

\* get_gemini_model: the name of the cached instance, or the error of
\* startswith on a value that is not a string
get_gemini_model(model_name) ==
    IF model_name = None
    THEN [raised |-> "AttributeError", model |-> None]
    ELSE [raised |-> None,
          model |-> IF StartsWith(model_name, "models/") THEN model_name
                    ELSE "models/" \o model_name]

model_names_to_try_Reversed(model_name) ==
    <<model_name, "gemini-2.0-flash", "gemini-2.0-flash-exp", "gemini-2.5-pro",
      "gemini-2.5-flash">>

model_names_to_try(model_name) ==
    <<model_name, "gemini-2.5-flash", "gemini-2.5-pro", "gemini-2.0-flash-exp",
      "gemini-2.0-flash">>

\* the body of the try statement for attempt i
TryModel(model_to_try, outcome, i) ==
    LET got == get_gemini_model(model_to_try)
    IN  IF got.raised # None
        THEN [raised |-> got.raised \o " at attempt " \o ToString(i),
              value |-> None, called |-> <<>>]
        ELSE IF outcome = "text"
        THEN [raised |-> None, value |-> Strip(CandidateText(i)),
              called |-> <<got.model>>]
        ELSE [raised |-> ErrorOf(outcome, i), value |-> None,
              called |-> <<got.model>>]

RECURSIVE TryFrom(_, _, _, _, _)
\* the for loop of generate_text from attempt i on, and the raise after it
TryFrom(names, outcomes, i, called, last_error) ==
    IF i > Len(names)
    THEN [raised |-> IF last_error # None THEN last_error
                     ELSE "Exception: Failed to generate text",
          value |-> None, called |-> called, attempts |-> i - 1]
    ELSE LET r == TryModel(names[i], outcomes[i], i)
         IN  IF r.raised = None
             THEN [raised |-> None, value |-> r.value,
                   called |-> called \o r.called, attempts |-> i]
             ELSE TryFrom(names, outcomes, i + 1, called \o r.called, r.raised)

generate_text ==
    /\ ret.op = "prompt"
    /\ ret' = [op |-> "generate_text",
               model_name |-> ret.model_name,
               outcomes |-> ret.outcomes,
               result |-> TryFrom(model_names_to_try(ret.model_name),
                                  ret.outcomes, 1, <<>>, None)]
    /\ UNCHANGED <<cache_vars, tracker_vars, ledger_vars, now, query_vars, conc_vars>>

InitGenerate ==
    /\ shown_memories = EmptyDict
    /\ session_timestamps = EmptyDict
    /\ conversations = EmptyDict
    /\ history_timestamps = EmptyDict
    /\ now = 0
    /\ last_write = EmptyDict
    /\ db = [patient_id |-> "a", topic |-> "c", rows |-> <<>>]
    /\ served_in_lap = {}
    /\ served_in_session = {}
    /\ ConcIdle
    /\ memory_cache = EmptyDict
    /\ llm_response_cache = EmptyDict
    /\ cache_sets = EmptyDict
    /\ \E model_name \in RequestedModels, outcomes \in [1..5 -> AttemptOutcomes] :
           ret = [op |-> "prompt", model_name |-> model_name, outcomes |-> outcomes]

NextGenerate == generate_text

SpecGenerate == InitGenerate /\ [][NextGenerate]_vars

TypeOK ==
    /\ now \in 0..MaxNow
    /\ \A p \in DOMAIN shown_memories : \A t \in DOMAIN shown_memories[p] :
           IsFiniteSet(shown_memories[p][t])
    /\ \A k \in DOMAIN session_timestamps : session_timestamps[k] <= now

(***************************************************************************)
(* Properties.                                                             *)
(***************************************************************************)
CandidateUrls == {db.rows[i].file_url : i \in DOMAIN db.rows}

AllShown(rows, shown_ids) == \A i \in DOMAIN rows : rows[i].file_url \in shown_ids

\* the timestamp stored for (patient_id, topic), as a set of at most one hour
StampOf(ts, patient_id, topic) ==
    {ts[k] : k \in {get_session_key(patient_id, topic)} \cap DOMAIN ts}

\* C1 as stated: a request that performed no lap-around reset returns no
\* candidate url that an earlier request returned since the last lap-around
\* reset of the session.
C1_NoRepeatSinceLapReset ==
    [][(ret'.op = "patient_query_test" /\ ~ret'.lap_reset)
           => Range(ret'.media) \cap served_in_lap \cap CandidateUrls = {}]_vars

\* C1 amended: a request returns no candidate url that an earlier request
\* returned, unless a lap-around reset or the 24 hour idle expiry of the
\* session happened between the two.
C1_NoRepeatSinceResetOrExpiry ==
    [][(ret'.op = "patient_query_test" /\ ~ret'.lap_reset /\ ~ret'.expired)
           => Range(ret'.media) \cap served_in_session \cap CandidateUrls = {}]_vars

\* a later request of a lap returned a candidate the lap had not served yet
C1_Witness ==
    /\ ret.op = "patient_query_test"
    /\ ~ret.lap_reset /\ ~ret.expired
    /\ Range(ret.media) \cap CandidateUrls # {}
    /\ (served_in_session \ Range(ret.media)) \cap CandidateUrls # {}

\* C2: when every candidate is in the shown set the filter reads, the filter
\* returns the empty list, the handler resets the session, the shown set is
\* then empty and filtering the same candidates returns the whole list in order.
C2_LapAround ==
    (ret.op = "patient_query_test" /\ AllShown(db.rows, ret.shown_ids))
        => /\ ret.filtered = <<>>
           /\ ret.lap_reset
           /\ ret.shown_after_reset = {}
           /\ ret.refiltered = db.rows
           /\ ret.unseen_memories = db.rows

\* a lap over several candidates ended with a reset
C2_Witness ==
    /\ ret.op = "patient_query_test"
    /\ Len(db.rows) >= 2
    /\ AllShown(db.rows, ret.shown_ids)
    /\ ret.lap_reset

\* C3: filter_unseen_memories returns the rows of its input whose file_url is
\* not in the shown set get_shown_memories returned, in input order, and
\* leaves that shown set as it was.
C3_FilterIsSubsequence ==
    ret.op = "filter_unseen_memories"
        => /\ ret.out = SelectSeq(ret.memories,
                                  LAMBDA m : m.file_url \notin ret.shown_ids)
           /\ ShownOf(shown_memories, ret.patient_id, ret.topic) = ret.shown_ids

\* one row was filtered out and two rows sharing a file_url were both kept
C3_Witness ==
    /\ ret.op = "filter_unseen_memories"
    /\ Len(ret.memories) = 3
    /\ Len(ret.out) = 2
    /\ ret.out[1].file_url = ret.out[2].file_url

\* C4: after mark_as_shown the stored set, and the set get_shown_memories
\* returns, is the previous set united with the ids, and the timestamp of
\* the session is the current time.
C4_MarkIsUnion ==
    ret.op = "mark_as_shown"
        => /\ ShownOf(shown_memories, ret.patient_id, ret.topic)
                  = ret.before \cup ret.memory_ids
           /\ GetShown(shown_memories, session_timestamps, now,
                       ret.patient_id, ret.topic) = ret.before \cup ret.memory_ids
           /\ StampOf(session_timestamps, ret.patient_id, ret.topic) = {now}

\* an id that was already shown was marked again, next to another shown id
C4_Witness ==
    /\ ret.op = "mark_as_shown"
    /\ ret.memory_ids # {}
    /\ ret.memory_ids \subseteq ret.before
    /\ ret.memory_ids # ret.before
    /\ ShownOf(shown_memories, ret.patient_id, ret.topic) = ret.before

C8_SweepSparesConcurrentWrites ==
    worker.pc = "read"
        => \A turn \in raced :
               /\ turn \in Range(TurnsOf(conversations, ConcPatient, ConcTopic))
               /\ StampOf(history_timestamps, ConcPatient, ConcTopic)
                      = {turn.timestamp}

\* C6 as stated: reset_session with a topic, the empty string included,
\* clears that topic and leaves the shown set and the timestamp of every
\* other session as they were; with the topic omitted it clears every topic
\* of the patient.
C6_ResetClearsOnlyThatTopic ==
    [][ret'.op = "reset_session"
           => IF ret'.topic # None
              THEN /\ ShownOf(shown_memories', ret'.patient_id, ret'.topic) = {}
                   /\ \A s \in Sessions \ {<<ret'.patient_id, ret'.topic>>} :
                          /\ ShownOf(shown_memories', s[1], s[2])
                                 = ShownOf(shown_memories, s[1], s[2])
                          /\ StampOf(session_timestamps', s[1], s[2])
                                 = StampOf(session_timestamps, s[1], s[2])
              ELSE \A s \in Sessions :
                       s[1] = ret'.patient_id
                           => ShownOf(shown_memories', s[1], s[2]) = {}]_vars

\* C7 as stated: when get_shown_memories or get_history returns, a session
\* whose last write is more than 24 hours old holds no data and a session
\* written within the last 24 hours holds what it held.
C7_IdleExpiry ==
    [][/\ ret'.op = "get_shown_memories"
           => \A s \in IdleSessions :
                  <<"tracker", s[1], s[2]>> \in DOMAIN last_write
                      => IF now - last_write[<<"tracker", s[1], s[2]>>] > max_age_hours
                         THEN ShownOf(shown_memories', s[1], s[2]) = {}
                         ELSE ShownOf(shown_memories', s[1], s[2])
                                  = ShownOf(shown_memories, s[1], s[2])
       /\ ret'.op = "get_history"
           => \A s \in IdleSessions :
                  <<"ledger", s[1], s[2]>> \in DOMAIN last_write
                      => IF now - last_write[<<"ledger", s[1], s[2]>>] > max_age_hours
                         THEN TurnsOf(conversations', s[1], s[2]) = <<>>
                         ELSE TurnsOf(conversations', s[1], s[2])
                                  = TurnsOf(conversations, s[1], s[2])]_vars

\* C9: a conversation intent or an interactive style resolves to agent mode
\* with the placeholder as its only media, whatever the availability and the
\* unseen memories hold, and agent mode never comes with an empty media list.
C9_ConversationWins ==
    ret.op = "resolve"
        => /\ (ret.intent.intent_type = "conversation"
               \/ ret.intent.interaction_style = "interactive")
                  => ret.result = <<"agent", <<Placeholder>> >>
           /\ ret.result[1] = "agent" => ret.result[2] # <<>>

\* a conversation intent was resolved over five or more images
C9_Witness ==
    /\ ret.op = "resolve"
    /\ ret.intent.intent_type = "conversation"
    /\ ret.intent.interaction_style = "passive"
    /\ ret.media_availability.total_images >= 5
    /\ Len(UrlsOfKind(ret.unseen_memories, "image")) >= 5
    /\ ret.result[1] = "agent"

\* C10 as stated: for an intent that is neither conversation nor interactive
\* the response is (vertical-video, first unseen vertical video) when the
\* unseen memories hold a vertical video, else (video, first unseen
\* horizontal video) when they hold a horizontal one.
C10_VideoPriority ==
    (/\ ret.op = "patient_query_test"
     /\ ret.intent.intent_type # "conversation"
     /\ ret.intent.interaction_style # "interactive")
        => LET vertical == UrlsOfKind(ret.unseen_memories, "vertical")
               horizontal == UrlsOfKind(ret.unseen_memories, "horizontal")
           IN  /\ vertical # <<>>
                      => /\ ret.displayMode = "vertical-video"
                         /\ ret.media = Take(vertical, 1)
               /\ (vertical = <<>> /\ horizontal # <<>>)
                      => /\ ret.displayMode = "video"
                         /\ ret.media = Take(horizontal, 1)

\* no row of the unseen memories is a video
NoVideos(memories) ==
    UrlsOfKind(memories, "horizontal") = <<>> /\ UrlsOfKind(memories, "vertical") = <<>>

Passive(intent) ==
    intent.intent_type # "conversation" /\ intent.interaction_style # "interactive"

\* C11 as stated: for an intent that is neither conversation nor interactive
\* and unseen memories without videos, five or more unseen images resolve to
\* (5-pic, the first five), exactly four to (4-pic, the first four) and
\* exactly three to (3-pic, the first three), in the order of the memories.
C11_PhotoTiers ==
    (ret.op = "resolve" /\ Passive(ret.intent) /\ NoVideos(ret.unseen_memories))
        => LET images == UrlsOfKind(ret.unseen_memories, "image")
           IN  /\ Len(images) >= 5 => ret.result = <<"5-pic", Take(images, 5)>>
               /\ Len(images) = 4 => ret.result = <<"4-pic", Take(images, 4)>>
               /\ Len(images) = 3 => ret.result = <<"3-pic", Take(images, 3)>>


\* C12 as stated: for an intent that is neither conversation nor interactive
\* and unseen memories with one or two images and no videos, the resolver
\* returns 3-pic with exactly those images.
C12_ScarceImages ==
    (/\ ret.op = "resolve" /\ Passive(ret.intent) /\ NoVideos(ret.unseen_memories)
     /\ Len(UrlsOfKind(ret.unseen_memories, "image")) \in {1, 2}
     /\ ret.media_availability = get_media_availability(ret.unseen_memories))
        => ret.result = <<"3-pic", UrlsOfKind(ret.unseen_memories, "image")>>


PhotoModes == {"3-pic", "4-pic", "5-pic"}

\* C13 as stated: when select_media_for_mode is called with a photo mode, the
\* mode it returns follows the count of unseen images alone: five or more
\* give 5-pic, four give 4-pic, three give 3-pic, whichever photo mode was
\* requested.
C13_AvailabilityOverridesRequest ==
    (ret.op = "resolve" /\ ret.display_mode \in PhotoModes)
        => LET available_count == Len(UrlsOfKind(ret.unseen_memories, "image"))
           IN  /\ available_count >= 5 => ret.result[1] = "5-pic"
               /\ available_count = 4 => ret.result[1] = "4-pic"
               /\ available_count = 3 => ret.result[1] = "3-pic"


\* C14 as stated: called with a photo mode, select_media_for_mode returns an
\* empty media list only when the unseen memories hold no image and no video,
\* and then it returns the requested mode.
C14_EmptyOnlyWhenNothingExists ==
    (ret.op = "resolve" /\ ret.display_mode \in PhotoModes)
        => /\ ret.result[2] = <<>>
                  => /\ UrlsOfKind(ret.unseen_memories, "image") = <<>>
                     /\ NoVideos(ret.unseen_memories)
           /\ (UrlsOfKind(ret.unseen_memories, "image") = <<>>
               /\ NoVideos(ret.unseen_memories))
                  => ret.result = <<ret.display_mode, <<>> >>


AsCount(entry) == IF entry.tag = "int" /\ entry.val > 0 THEN entry.val ELSE 0

\* the availability with every malformed part read as zero
ZeroedAvailability(media_availability) ==
    LET orientations == IF media_availability.tag = "dict"
                        THEN media_availability.video_orientations ELSE Missing
        horizontal == IF orientations.tag = "dict"
                      THEN AsCount(orientations.horizontal) ELSE 0
        vertical == IF orientations.tag = "dict"
                    THEN AsCount(orientations.vertical) ELSE 0
    IN  [total_images |-> IF media_availability.tag = "dict"
                          THEN AsCount(media_availability.total_images) ELSE 0,
         total_videos |-> horizontal + vertical,
         video_orientations |-> [horizontal |-> horizontal, vertical |-> vertical]]

WellFormedRows(memories) ==
    memories.tag = "list" /\ \A i \in DOMAIN memories.rows : ~RowRaises(memories.rows[i])

\* C17 as stated: whatever is missing, None or negative in the availability
\* and the memories, the resolver raises nothing and returns a (mode, media)
\* pair, the one it returns when the malformed counts are zero.
C17_ResolverCannotFail ==
    ret.op = "resolve_untyped"
        => /\ ret.result.raised = None
           /\ WellFormedRows(ret.memories)
                  => ret.result.value
                         = select_media_for_mode(
                               determine_display_mode(
                                   ret.intent,
                                   ZeroedAvailability(ret.media_availability)),
                               ret.memories.rows)


\* C18: when generate_text raises, or returns a text whose payload is cut
\* off or is not JSON, bare or fenced, classify_intent_with_gemini raises
\* nothing and returns the fallback descriptor for the topic: memory_replay,
\* passive, curious, "wants to learn about <topic>", confidence 0.5.
C18_FallbackOnFailure ==
    ret.op = "classify_intent_with_gemini"
        => /\ ret.result.raised = None
           /\ ret.generated.kind \in {"raised", "malformed", "non_json"}
                  => ret.result.value
                         = [intent_type |-> "memory_replay",
                            interaction_style |-> "passive",
                            emotional_tone |-> "curious",
                            specific_request |-> "wants to learn about " \o ret.topic,
                            confidence |-> 5]

\* a cut-off payload inside a fence, after some prose, gave the fallback
C18_Witness ==
    /\ ret.op = "classify_intent_with_gemini"
    /\ ret.generated.kind = "malformed"
    /\ ret.generated.value = Wrap("prose_and_fence", DocTruncated)
    /\ ret.topic = "beach day"
    /\ ret.result.value.specific_request = "wants to learn about beach day"

\* C19 as stated: every descriptor classify_intent_with_gemini returns has a
\* confidence within [0, 1], an intent_type that is memory_replay or
\* conversation and an interaction_style that is passive or interactive.
C19_DescriptorWellFormed ==
    ret.op = "classify_intent_with_gemini"
        => /\ ret.result.raised = None
           /\ {"intent_type", "interaction_style", "confidence"}
                  \subseteq DOMAIN ret.result.value
           /\ ret.result.value.confidence \in 0..10
           /\ ret.result.value.intent_type \in {"memory_replay", "conversation"}
           /\ ret.result.value.interaction_style \in {"passive", "interactive"}


\* C20: get_memories on a key that set_memories wrote, and that was not
\* invalidated since, returns the value of the last set_memories while no
\* more than ttl_minutes have passed since that call (the moment of the call
\* and the moment of exactly ttl_minutes included), and a miss, never the
\* value, once more than ttl_minutes have passed.
C20_CacheFreshness ==
    (ret.op = "get_memories" /\ ret.cache_key \in DOMAIN cache_sets)
        => IF now - cache_sets[ret.cache_key].at <= ttl_minutes
           THEN ret.hit /\ ret.data = cache_sets[ret.cache_key].data
           ELSE ~ret.hit

\* a value was read back when exactly ttl_minutes had passed since its set
C20_Witness ==
    /\ ret.op = "get_memories"
    /\ ret.cache_key \in DOMAIN cache_sets
    /\ now - cache_sets[ret.cache_key].at = ttl_minutes
    /\ ret.hit
    /\ ret.data = <<"u1">>

(***************************************************************************)
(* C21: the cache key of (a, b) differs from the key of (b, a) whenever    *)
(* a # b, so a lookup with topic and patient id swapped never addresses    *)
(* the entry stored under the unswapped pair: no get_memories hit returns  *)
(* the list that set_memories stored with the two arguments exchanged.     *)
(***************************************************************************)
C21_SwapNeverShares ==
    (ret.op = "get_memories" /\ ret.hit /\ ret.topic # ret.patient_id)
        => ~(/\ cache_sets[ret.cache_key].topic = ret.patient_id
             /\ cache_sets[ret.cache_key].patient_id = ret.topic)


(***************************************************************************)
(* C22: a set always overwrites and restarts the age of the entry: right   *)
(* after a set the entry of the key holds the value just stored with the   *)
(* time of the set, whatever it replaced, and a get made no more than      *)
(* ttl_minutes after the latest set of its key returns the value of that   *)
(* set, in the memory cache and in the response cache, however old the     *)
(* earlier set was.                                                        *)
(***************************************************************************)
C22_SetOverwrites ==
    /\ ret.op = "set_memories"
           => /\ ret.cache_key \in DOMAIN memory_cache
              /\ memory_cache[ret.cache_key] = [data |-> ret.data, timestamp |-> now]
    /\ ret.op = "set_llm_response"
           => /\ ret.cache_key \in DOMAIN llm_response_cache
              /\ llm_response_cache[ret.cache_key] = [data |-> ret.data, timestamp |-> now]
    /\ (/\ ret.op \in {"get_memories", "get_llm_response"}
        /\ ret.cache_key \in DOMAIN cache_sets
        /\ now - cache_sets[ret.cache_key].at <= ttl_minutes)
           => ret.hit /\ ret.data = cache_sets[ret.cache_key].data

\* a second set replaced an entry older than the ttl that held another
\* value, and a get a full ttl after the second set returned the second value
C22_Witness ==
    /\ ret.op = "get_memories"
    /\ ret.hit
    /\ ret.data = <<"u2">>
    /\ ret.cache_key \in DOMAIN cache_sets
    /\ cache_sets[ret.cache_key].over
    /\ now - cache_sets[ret.cache_key].at = ttl_minutes


\* the entries of cache other than the one of cache_key are the same after the step
OthersKept(cache, cache_after, cache_key) ==
    /\ DOMAIN cache_after \subseteq DOMAIN cache
    /\ \A k \in DOMAIN cache \ {cache_key} :
           k \in DOMAIN cache_after /\ cache_after[k] = cache[k]

\* the lookup of cache_key found an expired entry, missed, and deleted it;
\* or it found a fresh entry or none, and deleted nothing
LazyEviction(cache, cache_after, cache_key, t0, hit) ==
    IF cache_key \in DOMAIN cache /\ t0 - cache[cache_key].timestamp > ttl_minutes
    THEN ~hit /\ cache_key \notin DOMAIN cache_after
    ELSE cache_after = cache

(***************************************************************************)
(* C23: lazy eviction.  A get of a key whose entry is older than           *)
(* ttl_minutes misses and removes that entry; a get of a fresh or absent   *)
(* key removes nothing; in both cases every other entry of the memory      *)
(* cache and of the response cache is left as it was.                      *)
(***************************************************************************)
C23_LazyEviction ==
    [][/\ ret'.op = "get_memories"
           => /\ LazyEviction(memory_cache, memory_cache', ret'.cache_key, now, ret'.hit)
              /\ OthersKept(memory_cache, memory_cache', ret'.cache_key)
              /\ llm_response_cache' = llm_response_cache
       /\ ret'.op = "get_llm_response"
           => /\ LazyEviction(llm_response_cache, llm_response_cache',
                              ret'.cache_key, now, ret'.hit)
              /\ OthersKept(llm_response_cache, llm_response_cache', ret'.cache_key)
              /\ memory_cache' = memory_cache]_vars

\* a get missed on an expired entry and removed it, while an expired entry
\* of another key and an expired entry of the response cache are still stored
C23_Witness ==
    /\ ret.op = "get_memories"
    /\ ~ret.hit
    /\ ret.cache_key \in DOMAIN cache_sets
    /\ now - cache_sets[ret.cache_key].at > ttl_minutes
    /\ ret.cache_key \notin DOMAIN memory_cache
    /\ \E k \in DOMAIN memory_cache : is_expired(memory_cache[k].timestamp, now)
    /\ \E k \in DOMAIN llm_response_cache :
           is_expired(llm_response_cache[k].timestamp, now)


\* the sweep removed from cache every entry older than ttl_minutes and kept
\* every other entry, which a get still returns
Swept(cache, cache_after, t0) ==
    /\ DOMAIN cache_after \subseteq DOMAIN cache
    /\ \A k \in DOMAIN cache :
           IF t0 - cache[k].timestamp > ttl_minutes
           THEN k \notin DOMAIN cache_after
           ELSE /\ k \in DOMAIN cache_after
                /\ cache_after[k] = cache[k]
                /\ IsHit(cache_after, k, t0)
    /\ CacheStats(cache_after, t0).expired = 0

(***************************************************************************)
(* C24: cleanup_expired removes every entry older than ttl_minutes from    *)
(* the memory cache and from the response cache and no other entry; the    *)
(* statistics taken next report no expired entry in either cache, and a    *)
(* get made next of a key set no more than ttl_minutes ago returns its     *)
(* value.                                                                  *)
(***************************************************************************)
C24_CleanupExpired ==
    [][/\ ret'.op = "cleanup_expired"
           => /\ Swept(memory_cache, memory_cache', now)
              /\ Swept(llm_response_cache, llm_response_cache', now)
       /\ (ret.op = "cleanup_expired" /\ ret'.op = "get_cache_stats")
           => /\ ret'.out.memory_cache.expired = 0
              /\ ret'.out.llm_cache.expired = 0
       /\ (/\ ret.op = "cleanup_expired"
           /\ ret'.op \in {"get_memories", "get_llm_response"}
           /\ ret'.cache_key \in DOMAIN cache_sets
           /\ now - cache_sets[ret'.cache_key].at <= ttl_minutes)
           => ret'.hit /\ ret'.data = cache_sets[ret'.cache_key].data]_vars

\* a sweep removed two expired entries, one of them from the response
\* cache, and left an entry of exactly ttl_minutes in the memory cache
C24_Witness ==
    /\ ret.op = "cleanup_expired"
    /\ ret.cleaned = 2
    /\ llm_response_cache = EmptyDict
    /\ \E k \in DOMAIN cache_sets : StartsWith(k, "llm:")
    /\ \E k \in DOMAIN memory_cache : now - memory_cache[k].timestamp = ttl_minutes



\* the last count elements of history, in their order
LastOf(history, count) ==
    [i \in 1..count |-> history[Len(history) - count + i]]

Min(a, b) == IF a <= b THEN a ELSE b

(***************************************************************************)
(* C25: ledger windowing.  After N appends to a session, get_history with  *)
(* max_turns = k returns exactly the last min(k, N) turns in append order, *)
(* for every N >= 0 and every k >= 0.                                      *)
(***************************************************************************)
C25_Windowing ==
    (ret.op = "get_history" /\ ret.max_turns.tag = "int" /\ ret.max_turns.val >= 0)
        => LET history == TurnsOf(conversations, ret.patient_id, ret.topic)
           IN  ret.out = LastOf(history, Min(ret.max_turns.val, Len(history)))


(***************************************************************************)
(* C26 as stated: get_history called without max_turns returns the full    *)
(* history of the session, whatever its length.                            *)
(***************************************************************************)
C26_NoArgumentFullHistory ==
    (ret.op = "get_history" /\ ret.max_turns.tag = "missing")
        => ret.out = TurnsOf(conversations, ret.patient_id, ret.topic)

(***************************************************************************)
(* C26: get_history with max_turns = None returns the full history of the  *)
(* session, whatever its length; called without max_turns it returns the   *)
(* last 10 turns (all of them when there are fewer); given a positive      *)
(* max_turns it returns the last max_turns turns.                          *)
(***************************************************************************)
C26_RecentRead ==
    ret.op = "get_history"
        => LET history == TurnsOf(conversations, ret.patient_id, ret.topic)
           IN  /\ ret.max_turns.tag = "none" => ret.out = history
               /\ ret.max_turns.tag = "missing"
                      => ret.out = LastOf(history, Min(10, Len(history)))
               /\ (ret.max_turns.tag = "int" /\ ret.max_turns.val >= 1)
                      => ret.out = LastOf(history, Min(ret.max_turns.val, Len(history)))

\* get_history with max_turns = None returned more than 10 turns
C26_Witness ==
    /\ ret.op = "get_history"
    /\ ret.max_turns.tag = "none"
    /\ Len(ret.out) > 10
    /\ ret.out = TurnsOf(conversations, ret.patient_id, ret.topic)


(***************************************************************************)
(* C27: export round trip.  After N add_turn calls on a session, with no   *)
(* reset and no expiry, export_conversation yields N records, and the      *)
(* i-th record has the role, the message and the topic the i-th add_turn   *)
(* was called with (the message of the i-th call tells its role and i).    *)
(***************************************************************************)
C27_ExportRoundTrip ==
    ret.op = "export_conversation"
        => LET history == TurnsOf(conversations, ret.patient_id, ret.topic)
           IN  /\ Len(ret.out) = Len(history)
               /\ \A i \in DOMAIN ret.out :
                      /\ ret.out[i].role \in Roles
                      /\ ret.out[i].role = history[i].role
                      /\ ret.out[i].message = TurnMessage(ret.out[i].role, i)
                      /\ ret.out[i].topic = ret.topic

\* an export of more than 10 turns, of both roles
C27_Witness ==
    /\ ret.op = "export_conversation"
    /\ Len(ret.out) > 10
    /\ ret.out[1].message = "p1"
    /\ ret.out[Len(ret.out)].role = "agent"


\* the messages of the agent turns among the last count turns of history
AgentsInWindow(history, count) ==
    LET raw == LastOf(history, Min(count, Len(history)))
        agents == SelectSeq(raw, LAMBDA turn : turn.role = "agent")
    IN  [i \in DOMAIN agents |-> agents[i].message]

\* out is the last max_turns agent messages of the last 2 * max_turns turns
LastAgentMessages(history, max_turns, out) ==
    LET agents == AgentsInWindow(history, 2 * max_turns)
    IN  /\ out = LastOf(agents, Min(max_turns, Len(agents)))
        /\ Len(out) <= max_turns
        /\ \A j \in DOMAIN out :
               \E i \in DOMAIN history :
                   /\ i > Len(history) - 2 * max_turns
                   /\ history[i].role = "agent"
                   /\ history[i].message = out[j]

C29_AppendOnly ==
    [][\A s \in Sessions :
           LET old == TurnsOf(conversations, s[1], s[2])
               new == TurnsOf(conversations', s[1], s[2])
           IN  /\ \/ new = old
                  \/ /\ ret'.op = "add_turn"
                     /\ Len(new) = Len(old) + 1
                     /\ SubSeq(new, 1, Len(old)) = old
                  \/ /\ ret'.op = "reset_conversation"
                     /\ new = <<>>
                  \/ /\ ret'.op = "get_history"
                     /\ new = <<>>
                     /\ now - old[Len(old)].timestamp > max_age_hours
               /\ \A i, j \in DOMAIN new :
                      i < j => new[i].timestamp <= new[j].timestamp]_vars

\* a list of two turns written at different hours is still whole after a
\* read whose sweep found the ledger of another session gone
C29_Witness ==
    /\ ret.op = "get_history"
    /\ Len(TurnsOf(conversations, "a", "c")) = 2
    /\ TurnsOf(conversations, "a", "c")[1].message = "p1"
    /\ TurnsOf(conversations, "a", "c")[2].message = "p2"
    /\ TurnsOf(conversations, "a", "c")[1].timestamp
           < TurnsOf(conversations, "a", "c")[2].timestamp
    /\ <<"ledger", "a", "">> \in DOMAIN last_write
    /\ TurnsOf(conversations, "a", "") = <<>>


(***************************************************************************)
(* C30: reset_conversation with a topic, the empty string included, clears *)
(* only the ledger of that topic: the turn lists and the timestamps of the *)
(* patient's other topics and of every other patient are unchanged.        *)
(***************************************************************************)
C30_ResetOnlyThatTopic ==
    [][(ret'.op = "reset_conversation" /\ ret'.topic # None)
           => \A s \in Sessions :
                  s # <<ret'.patient_id, ret'.topic>>
                      => /\ TurnsOf(conversations', s[1], s[2])
                                = TurnsOf(conversations, s[1], s[2])
                         /\ StampOf(history_timestamps', s[1], s[2])
                                = StampOf(history_timestamps, s[1], s[2])]_vars


\* the session of the last read was never written, or its last write is
\* more than 24 hours old
NeverWrittenOrExpired(store) ==
    LET key == <<store, ret.patient_id, ret.topic>>
    IN  key \in DOMAIN last_write => now - last_write[key] > max_age_hours

(***************************************************************************)
(* C31: a read of a session that was never written, or whose last write    *)
(* is more than 24 hours old, returns the empty default:                   *)
(* get_shown_memories the empty set, get_history and export_conversation   *)
(* the empty list, get_formatted_history the sentence "No previous         *)
(* conversation.".                                                         *)
(***************************************************************************)
C31_EmptyDefaults ==
    /\ (ret.op = "get_shown_memories" /\ NeverWrittenOrExpired("tracker"))
           => ret.out = {}
    /\ (ret.op \in {"get_history", "export_conversation"}
        /\ NeverWrittenOrExpired("ledger"))
           => ret.out = <<>>
    /\ (ret.op = "get_formatted_history" /\ NeverWrittenOrExpired("ledger"))
           => ret.out = "No previous conversation."


(***************************************************************************)
(* C32: readers never observe a torn write.  A get_history call made from  *)
(* the narration worker thread while the loop thread runs mark_as_shown    *)
(* and add_turn completes normally, its sweep included, and returns the    *)
(* turn list of the session as it stood before or after each of the        *)
(* writes, never a partly appended one.                                    *)
(***************************************************************************)
C32_NoTornRead ==
    /\ ret.op # "get_history_raised"
    /\ worker.pc # "raised"
    /\ ret.op = "get_history_returned"
           => \A i \in DOMAIN ret.out :
                  ret.out[i] \in Range(TurnsOf(conversations, ConcPatient, ConcTopic))


(***************************************************************************)
(* C33: lap completion.  For a fixed non-empty candidate list and a        *)
(* session that keeps receiving passive memory-replay requests, every      *)
(* candidate url is eventually returned, so that the lap completes, and no *)
(* request returns an empty media list while candidates remain unseen.     *)
(***************************************************************************)
C33_LapCompletes ==
    /\ <>(CandidateUrls \subseteq served_in_lap)
    /\ [](ret.op = "patient_query_test" => ret.media # <<>>)


\* the modes a response may carry
DisplayModes == {"3-pic", "4-pic", "5-pic", "video", "vertical-video", "agent"}

\* media holds only urls of candidate rows of the given kind, at most count
OnlyOfKind(media, kind, count) ==
    /\ Len(media) <= count
    /\ Range(media) \subseteq Range(UrlsOfKind(db.rows, kind))

(***************************************************************************)
(* C34: mode and media agree in every result of the resolver.  The mode is *)
(* one of 3-pic, 4-pic, 5-pic, video, vertical-video and agent; a k-pic    *)
(* mode carries only images and at most k of them; video carries at most   *)
(* one item, a horizontal video; vertical-video carries at most one item,  *)
(* a vertical video; agent carries exactly the placeholder.                *)
(***************************************************************************)
C34_ModeMediaAgree ==
    ret.op = "patient_query_test"
        => /\ ret.displayMode \in DisplayModes
           /\ ret.displayMode \in {"3-pic", "4-pic", "5-pic"}
                  => OnlyOfKind(ret.media, "image", PicCount(ret.displayMode))
           /\ ret.displayMode = "video" => OnlyOfKind(ret.media, "horizontal", 1)
           /\ ret.displayMode = "vertical-video" => OnlyOfKind(ret.media, "vertical", 1)
           /\ ret.displayMode = "agent" => ret.media = <<Placeholder>>


(***************************************************************************)
(* C35: after a completed patient query for a session, the shown set of    *)
(* the session is its value before the request, or the empty set when the  *)
(* request performed a lap-around reset, united with exactly the urls of   *)
(* the response; every returned url other than the placeholder belongs to  *)
(* a memory the request selected from as unseen; the shown set of no other *)
(* session has changed.                                                    *)
(***************************************************************************)
C35_ShownAfterQuery ==
    [][ret'.op = "patient_query_test"
           => /\ ShownOf(shown_memories', db.patient_id, db.topic)
                     = (IF ret'.lap_reset THEN {}
                        ELSE ShownOf(shown_memories, db.patient_id, db.topic))
                       \cup Range(ret'.media)
              /\ Range(ret'.media) \ {Placeholder}
                     \subseteq {ret'.unseen_memories[i].file_url :
                                    i \in DOMAIN ret'.unseen_memories}
              /\ \A s \in LapSessions \ {<<db.patient_id, db.topic>>} :
                     ShownOf(shown_memories', s[1], s[2])
                         = ShownOf(shown_memories, s[1], s[2])]_vars


(***************************************************************************)
(* C36: memory-cache isolation.  get_memories(topic, patient_id) returns a *)
(* value only if the entry it reads was stored by set_memories with the    *)
(* same topic and the same patient_id; a value stored for another pair, a  *)
(* missing patient id against a named patient included, is never returned. *)
(***************************************************************************)
C36_CacheIsolation ==
    (ret.op = "get_memories" /\ ret.hit)
        => /\ ret.cache_key \in DOMAIN cache_sets
           /\ cache_sets[ret.cache_key].topic = ret.topic
           /\ cache_sets[ret.cache_key].patient_id = ret.patient_id


(***************************************************************************)
(* C37: distinct (patient, topic) pairs share no session state.            *)
(* reset_session and reset_conversation with the topic omitted leave the   *)
(* data and the timestamps of every other patient as they were, so every   *)
(* other session still expires 24 hours after its own last write.          *)
(***************************************************************************)
C37_ResetLeavesOtherPatients ==
    [][(ret'.op \in {"reset_session", "reset_conversation"} /\ ret'.topic = None)
           => \A s \in Sessions :
                  s[1] # ret'.patient_id
                      => /\ ShownOf(shown_memories', s[1], s[2])
                                = ShownOf(shown_memories, s[1], s[2])
                         /\ StampOf(session_timestamps', s[1], s[2])
                                = StampOf(session_timestamps, s[1], s[2])
                         /\ TurnsOf(conversations', s[1], s[2])
                                = TurnsOf(conversations, s[1], s[2])
                         /\ StampOf(history_timestamps', s[1], s[2])
                                = StampOf(history_timestamps, s[1], s[2])]_vars


(***************************************************************************)
(* C38: a completed patient query appends to the ledger of its (patient,   *)
(* topic) exactly one patient turn carrying the transcription, followed by *)
(* exactly one agent turn carrying the narration if and only if the        *)
(* returned display mode is not agent; in agent mode the response text is  *)
(* absent and no agent turn is recorded.                                   *)
(***************************************************************************)
C38_TurnsPerQuery ==
    [][ret'.op = "patient_query_test"
           => LET old == TurnsOf(conversations, db.patient_id, db.topic)
                  new == TurnsOf(conversations', db.patient_id, db.topic)
                  n == Len(old)
              IN  /\ Len(new) > n
                  /\ SubSeq(new, 1, n) = old
                  /\ new[n + 1].role = "patient"
                  /\ new[n + 1].message = Transcription
                  /\ IF ret'.displayMode # "agent"
                     THEN /\ Len(new) = n + 2
                          /\ new[n + 2].role = "agent"
                          /\ new[n + 2].message = Narration
                          /\ ret'.text = Narration
                     ELSE /\ Len(new) = n + 1
                          /\ ret'.text = None]_vars

\* an agent-mode answer after a narrated one: three turns, the last the patient's
C38_AgentModeAfterNarration ==
    /\ ret.op = "patient_query_test"
    /\ ret.displayMode = "agent"
    /\ ret.text = None
    /\ Len(TurnsOf(conversations, db.patient_id, db.topic)) = 3
    /\ TurnsOf(conversations, db.patient_id, db.topic)[2].role = "agent"
    /\ TurnsOf(conversations, db.patient_id, db.topic)[3].role = "patient"


(***************************************************************************)
(* C39: generate_text tries the requested model and then the fixed         *)
(* fallback models strictly in list order, returns the text of the first   *)
(* attempt that succeeds without trying any later model, and raises the    *)
(* error of the last attempt only when every attempt failed; it ends after *)
(* at most five attempts.                                                  *)
(***************************************************************************)
FallbackModels ==
    <<"gemini-2.5-flash", "gemini-2.5-pro", "gemini-2.0-flash-exp", "gemini-2.0-flash">>

\* attempt i succeeds: the model could be built and the answer has a candidate
Succeeds(model_name, outcomes, i) ==
    outcomes[i] = "text" /\ (i = 1 => model_name # None)

\* the error attempt i ends with when it fails
FailureOf(model_name, outcomes, i) ==
    IF i = 1 /\ model_name = None THEN "AttributeError at attempt 1"
    ELSE ErrorOf(outcomes[i], i)

C39_FallbackInOrder ==
    ret.op = "generate_text"
        => LET order == <<ret.model_name>> \o FallbackModels
               good == {i \in 1..5 : Succeeds(ret.model_name, ret.outcomes, i)}
               first == CHOOSE i \in good : \A j \in good : i <= j
               made == IF good = {} THEN 5 ELSE first
               \* the models generate_content was called on, in call order
               expected == [i \in 1..made |-> get_gemini_model(order[i]).model]
               called == IF ret.model_name = None
                         THEN SubSeq(expected, 2, made) ELSE expected
           IN  /\ ret.result.attempts = made
               /\ ret.result.attempts <= 5
               /\ ret.result.called = called
               /\ IF good # {}
                  THEN /\ ret.result.raised = None
                       /\ ret.result.value = Strip(CandidateText(first))
                  ELSE /\ ret.result.value = None
                       /\ ret.result.raised = FailureOf(ret.model_name, ret.outcomes, 5)

\* two failed attempts, one with no candidate and one that raised, then an answer
C39_ThirdModelAnswers ==
    /\ ret.op = "generate_text"
    /\ ret.outcomes[1] = "no candidates"
    /\ ret.outcomes[2] = "raises"
    /\ ret.outcomes[3] = "text"
    /\ ret.result.called = <<"models/gemini-2.0-flash-exp", "models/gemini-2.5-flash",
                             "models/gemini-2.5-pro">>
    /\ ret.result.value = "reply 3"
    /\ ret.result.raised = None

====
